---- MODULE Spec2Model ----
(***************************************************************************)
(* A model of the VHDL scoreboard of moore (src/src/vhdl/score/mod.rs) and *)
(* of its built-in environment (src/src/vhdl/builtin.rs).                  *)
(*                                                                         *)
(* Part 1 is the memoizing scoreboard: the accessors hir, defs, archs,     *)
(* lldecl, lldef, ty, scope and const_value, each of which looks its key   *)
(* up in a table, calls make on a miss and stores the result.  The nested  *)
(* calls that a make issues are kept on an explicit call stack.            *)
(*                                                                         *)
(* Part 2 is name resolution: resolvable_from_primary_name, resolve_name   *)
(* and resolve_compound_name, applied to the scopes and definitions of a   *)
(* session.                                                                *)
(*                                                                         *)
(* Part 3 is the built-in environment: the root scope with the predefined  *)
(* operators, the library STD and the package STANDARD.                    *)
(*                                                                         *)
(* Part 4 is the architecture indexer archs(LibRef), part 5 the lowering   *)
(* of a library to HIR, part 6 the IR definition of an architecture, step  *)
(* by step with the lines it writes, part 7 the borrows of the            *)
(* scoreboard's RefCells in the accessors and makes of part 1, and part 8  *)
(* the implicit default value of a type.                                   *)
(***************************************************************************)
EXTENDS Integers, Sequences, FiniteSets, TLC

VARIABLES
    sb,        \* ScoreBoard: one memo table per product kind
    stack,     \* the accessor calls in progress, innermost last
    demand,    \* for each product, the products its make requests, in order
    faulty,    \* the products whose make has emitted a diagnostic and failed
    arena,     \* number of nodes allocated in the arenas so far
    panicked,  \* "none", or the message of the panic that ended the session
    calls,     \* number of accessor calls the driver has issued
    diags,     \* for each product, the diagnostics its make has emitted
    makes,     \* for each product, how often its make has been invoked
    returned,  \* for each product, the values its accessor has returned in Ok
    result,    \* what the last call of the driver returned
    env,       \* the session a call works on: scopes, definitions, libraries
    out        \* the last call outside part 1 and what it returned

sbvars == <<sb, stack, demand, faulty, arena, panicked, calls, diags, makes,
            returned, result>>

namevars == <<env, out>>

vars == <<sbvars, namevars>>

(***************************************************************************)
(* Bounds of the model.                                                    *)
(***************************************************************************)
MaxCalls == 2
MaxDepth == 6

(***************************************************************************)
(* Products.                                                               *)
(***************************************************************************)
Kinds == {"hir", "defs", "archs", "lldecl", "lldef", "ty", "scope", "const_value"}

Keys == {1, 2}

Other(key) == IF key = 1 THEN 2 ELSE 1

Product(kind, key) == [kind |-> kind, key |-> key]

Products == {Product(kind, key) : kind \in Kinds, key \in Keys}

\* The table an accessor stores its products in.
TableOf(kind) ==
    CASE kind = "hir"         -> "hir_table"
      [] kind = "defs"        -> "def_table"
      [] kind = "archs"       -> "arch_table"
      [] kind = "lldecl"      -> "lldecl_table"
      [] kind = "lldef"       -> "lldef_table"
      [] kind = "ty"          -> "ty_table"
      [] kind = "scope"       -> "scope_table"
      [] kind = "const_value" -> "const_table"

EmptyTable == [k \in {} |-> 0]

\* ScoreBoard::new, without the built-in library (part 3 models it).
NewScoreBoard ==
    [hir_table    |-> EmptyTable, def_table   |-> EmptyTable,
     arch_table   |-> EmptyTable, lldecl_table |-> EmptyTable,
     lldef_table  |-> EmptyTable, ty_table    |-> EmptyTable,
     scope_table  |-> EmptyTable, const_table |-> EmptyTable]

\* Option<node> as a set of at most one element.
Get(table, key) == IF key \in DOMAIN table THEN {table[key]} ELSE {}

\* The mutant of Lookup: the table is never consulted.
LookupNever(board, kind, key) == {}

\* The cache lookup every accessor starts with.  lldecl also accepts a
\* definition in place of a declaration.
Lookup(board, kind, key) ==
    IF kind = "lldecl"
    THEN IF Get(board.lldecl_table, key) # {}
         THEN Get(board.lldecl_table, key)
         ELSE Get(board.lldef_table, key)
    ELSE Get(board[TableOf(kind)], key)

(***************************************************************************)
(* What the make of each product requests.                                 *)
(***************************************************************************)
\* The makes of mod.rs: the architecture table asks for the library's HIR
\* and defs, the definition of an architecture for the HIR of the
\* architecture, of its entity and for the type of a port.
CodeDemand ==
    [p \in Products |->
        CASE p.kind = "archs" -> <<Product("hir", p.key), Product("defs", p.key)>>
          [] p.kind = "lldef" -> <<Product("hir", p.key), Product("hir", Other(p.key)),
                                   Product("ty", Other(p.key))>>
          [] OTHER -> <<>>]

\* The pull order HIR -> scope -> defs -> type on top of CodeDemand.
PullDemand ==
    [p \in Products |->
        CASE p.kind = "hir"         -> <<Product("scope", p.key)>>
          [] p.kind = "scope"       -> <<Product("defs", p.key)>>
          [] p.kind = "defs"        -> <<Product("ty", p.key)>>
          [] p.kind = "const_value" -> <<Product("ty", p.key)>>
          [] OTHER -> CodeDemand[p]]

\* A demand cycle: the type of a node asks for the HIR of the node again.
CyclicDemand ==
    [p \in Products |->
        IF p.kind = "ty" THEN <<Product("hir", p.key)>> ELSE PullDemand[p]]

DemandGraphs == {CodeDemand, PullDemand, CyclicDemand}

(***************************************************************************)
(* The call stack.                                                         *)
(***************************************************************************)
Frame(kind, key) == [kind |-> kind, key |-> key, pc |-> "lookup", req |-> 1]

Top == stack[Len(stack)]

TopProduct == Product(Top.kind, Top.key)

Running == panicked = "none" /\ stack # <<>>

\* The stack after the innermost accessor returned Ok: its caller, if any,
\* goes on with its next request.
ReturnOk ==
    IF Len(stack) = 1 THEN <<>>
    ELSE LET caller == stack[Len(stack) - 1]
         IN  SubSeq(stack, 1, Len(stack) - 2)
                 \o <<[caller EXCEPT !.req = caller.req + 1]>>

NoResult == [set |-> FALSE]

OkResult(p, node) == [set |-> TRUE, product |-> p, ok |-> TRUE, node |-> node]

ErrResult(p) == [set |-> TRUE, product |-> p, ok |-> FALSE, node |-> 0]

\* The driver's result once the outermost accessor has returned.
Deliver(p, node) == IF Len(stack) = 1 THEN OkResult(p, node) ELSE result

InitScoreBoard ==
    /\ sb = NewScoreBoard
    /\ stack = <<>>
    /\ demand \in DemandGraphs
    /\ faulty = {}
    /\ arena = 0
    /\ panicked = "none"
    /\ calls = 0
    /\ diags = [p \in Products |-> 0]
    /\ makes = [p \in Products |-> 0]
    /\ returned = [p \in Products |-> {}]
    /\ result = NoResult

\* The driver asks the scoreboard for a product.
Call(kind, key) ==
    /\ panicked = "none"
    /\ stack = <<>>
    /\ calls < MaxCalls
    /\ stack' = <<Frame(kind, key)>>
    /\ calls' = calls + 1
    /\ result' = NoResult
    /\ UNCHANGED <<sb, demand, faulty, arena, panicked, diags, makes, returned>>
    /\ UNCHANGED namevars

\* The accessor finds its key in the table and returns the cached node.
Hit ==
    /\ Running
    /\ Top.pc = "lookup"
    /\ Lookup(sb, Top.kind, Top.key) # {}
    /\ LET node == CHOOSE n \in Lookup(sb, Top.kind, Top.key) : TRUE
       IN  /\ returned' = [returned EXCEPT ![TopProduct] = @ \cup {node}]
           /\ result' = Deliver(TopProduct, node)
    /\ stack' = ReturnOk
    /\ UNCHANGED <<sb, demand, faulty, arena, panicked, calls, diags, makes>>
    /\ UNCHANGED namevars

\* The accessor misses and invokes make.
Miss ==
    /\ Running
    /\ Top.pc = "lookup"
    /\ Lookup(sb, Top.kind, Top.key) = {}
    /\ stack' = [stack EXCEPT ![Len(stack)].pc = "make"]
    /\ makes' = [makes EXCEPT ![TopProduct] = @ + 1]
    /\ UNCHANGED <<sb, demand, faulty, arena, panicked, calls, diags, returned, result>>
    /\ UNCHANGED namevars

\* The make of a declaration prototype is unimplemented!().
Unimplemented ==
    /\ Running
    /\ Top.pc = "make"
    /\ Top.kind = "lldecl"
    /\ panicked' = "not yet implemented"
    /\ UNCHANGED <<sb, stack, demand, faulty, arena, calls, diags, makes, returned, result>>
    /\ UNCHANGED namevars

\* make requests the next product it depends on: a nested accessor call.
Request ==
    /\ Running
    /\ Top.pc = "make"
    /\ Top.kind # "lldecl"
    /\ Top.req <= Len(demand[TopProduct])
    /\ Len(stack) < MaxDepth
    /\ LET p == demand[TopProduct][Top.req]
       IN  stack' = Append(stack, Frame(p.kind, p.key))
    /\ UNCHANGED <<sb, demand, faulty, arena, panicked, calls, diags, makes, returned, result>>
    /\ UNCHANGED namevars

\* The mutant of MakeErr: the failure is cached as a node in the table.
MakeErrCached ==
    /\ Running
    /\ Top.pc = "make"
    /\ Top.kind # "lldecl"
    /\ Top.req > Len(demand[TopProduct])
    /\ faulty' = faulty \cup {TopProduct}
    /\ diags' = [diags EXCEPT ![TopProduct] = @ + 1]
    /\ sb' = [sb EXCEPT ![TableOf(Top.kind)] = (Top.key :> 0) @@ @]
    /\ stack' = <<>>
    /\ result' = ErrResult(Product(stack[1].kind, stack[1].key))
    /\ UNCHANGED <<demand, arena, panicked, calls, makes, returned>>
    /\ UNCHANGED namevars

\* make emits a diagnostic and returns Err(()); every caller up the stack
\* passes the error on with `?`, and nothing is stored.
MakeErr ==
    /\ Running
    /\ Top.pc = "make"
    /\ Top.kind # "lldecl"
    /\ Top.req > Len(demand[TopProduct])
    /\ faulty' = faulty \cup {TopProduct}
    /\ diags' = [diags EXCEPT ![TopProduct] = @ + 1]
    /\ stack' = <<>>
    /\ result' = ErrResult(Product(stack[1].kind, stack[1].key))
    /\ UNCHANGED <<sb, demand, arena, panicked, calls, makes, returned>>
    /\ UNCHANGED namevars

\* The mutant of Insert: the node is returned but never stored.
InsertDropped(board, kind, key, node) == [panic |-> "none", board |-> board]

\* The insertion that follows make.  hir stores through set_hir, which
\* replaces; every other accessor panics when the key is already there.
Insert(board, kind, key, node) ==
    LET t == TableOf(kind)
    IN  IF kind # "hir" /\ key \in DOMAIN board[t]
        THEN [panic |-> "node should not exist", board |-> board]
        ELSE [panic |-> "none",
              board |-> [board EXCEPT ![t] = (key :> node) @@ board[t]]]

\* make returns Ok(node): the accessor stores the node and returns it.
Fill ==
    /\ Running
    /\ Top.pc = "make"
    /\ Top.kind # "lldecl"
    /\ Top.req > Len(demand[TopProduct])
    /\ TopProduct \notin faulty
    /\ LET node == arena + 1
           ins  == Insert(sb, Top.kind, Top.key, node)
       IN  /\ arena' = node
           /\ sb' = ins.board
           /\ panicked' = ins.panic
           /\ IF ins.panic = "none"
              THEN /\ stack' = ReturnOk
                   /\ returned' = [returned EXCEPT ![TopProduct] = @ \cup {node}]
                   /\ result' = Deliver(TopProduct, node)
              ELSE UNCHANGED <<stack, returned, result>>
    /\ UNCHANGED <<demand, faulty, calls, diags, makes>>
    /\ UNCHANGED namevars

(***************************************************************************)
(* Part 2: name resolution.                                                *)
(***************************************************************************)
MaxParts == 2

\* Option::None of a ScopeRef.
None == 0

Span(lo, hi) == [lo |-> lo, hi |-> hi]

INVALID_SPAN == Span(0, 0)

\* Span::expand: the smallest span that covers both.
expand(a, b) ==
    Span(IF a.lo < b.lo THEN a.lo ELSE b.lo, IF a.hi > b.hi THEN a.hi ELSE b.hi)

Spanned(value, span) == [value |-> value, span |-> span]

\* ResolvableName
Ident(n) == [kind |-> "Ident", v |-> n]

Bit(c) == [kind |-> "Bit", v |-> c]

Operator(op) == [kind |-> "Operator", v |-> op]

\* The variants of Def.
DefKinds ==
    {"Arch", "Cfg", "Ctx", "Entity", "Lib", "Pkg", "PkgInst", "BuiltinPkg",
     "Type", "Subtype", "Enum", "Const", "Signal", "File", "Var", "SharedVar",
     "BuiltinOp", "Unit"}

Def(kind, id) == [kind |-> kind, id |-> id]

\* Result<T>, together with the diagnostics emitted on the way.
Ok(value) == [ok |-> TRUE, value |-> value, diags |-> <<>>]

Err(ds) == [ok |-> FALSE, value |-> <<>>, diags |-> ds]

\* The diagnostics of name resolution.
DiagMake(kind, id) ==
    [msg |-> "make failed", about |-> [kind |-> kind, id |-> id], spans |-> <<>>]

DiagNotOperator(primary) ==
    [msg |-> "is not a valid operator symbol",
     about |-> [kind |-> primary.kind, v |-> primary.v],
     spans |-> <<primary.span>>]

DiagNotKnown(name) ==
    [msg |-> "is not known", about |-> name.value, spans |-> <<name.span>>]

DiagAmbiguous(seen_span, found) ==
    [msg |-> "is ambiguous", about |-> seen_span,
     spans |-> <<seen_span>> \o [i \in 1..Len(found) |-> found[i].span]]

DiagCannotSelect(d, pn) ==
    [msg |-> "cannot select into", about |-> d, spans |-> <<pn.span>>]

\* The accessors defs and scope of part 1, seen from a caller: a scope whose
\* product is in the table is answered with it, for any other the make fails
\* with its diagnostic.
defs(e, id) ==
    IF id \in DOMAIN e.def_table THEN Ok(e.def_table[id])
    ELSE Err(<<DiagMake("defs", id)>>)

scope(e, id) ==
    IF id \in DOMAIN e.scope_table THEN Ok(e.scope_table[id])
    ELSE Err(<<DiagMake("scope", id)>>)

\* Defs::get followed by Vec::extend: nothing is added when there is no entry.
DefsGet(table, name) == IF name \in DOMAIN table THEN table[name] ELSE <<>>

\* The operator symbols of resolvable_from_primary_name.
TBL ==
    "and" :> "Logical(And)" @@ "or" :> "Logical(Or)" @@ "nand" :> "Logical(Nand)" @@
    "nor" :> "Logical(Nor)" @@ "xor" :> "Logical(Xor)" @@ "xnor" :> "Logical(Xnor)" @@
    "=" :> "Rel(Eq)" @@ "/=" :> "Rel(Neq)" @@ "<" :> "Rel(Lt)" @@
    "<=" :> "Rel(Leq)" @@ ">" :> "Rel(Gt)" @@ ">=" :> "Rel(Geq)" @@
    "?=" :> "Match(Eq)" @@ "?/=" :> "Match(Neq)" @@ "?<" :> "Match(Lt)" @@
    "?<=" :> "Match(Leq)" @@ "?>" :> "Match(Gt)" @@ "?>=" :> "Match(Geq)" @@
    "sll" :> "Shift(Sll)" @@ "srl" :> "Shift(Srl)" @@ "sla" :> "Shift(Sla)" @@
    "sra" :> "Shift(Sra)" @@ "rol" :> "Shift(Rol)" @@ "ror" :> "Shift(Ror)" @@
    "+" :> "Add" @@ "-" :> "Sub" @@ "&" :> "Concat" @@ "*" :> "Mul" @@
    "/" :> "Div" @@ "mod" :> "Mod" @@ "rem" :> "Rem" @@ "**" :> "Pow" @@
    "abs" :> "Abs" @@ "not" :> "Not"

\* The mutant of resolvable_from_primary_name: a string that is no operator
\* symbol is taken for an identifier.
resolvable_lenient(primary) ==
    CASE primary.kind = "Ident" -> Ok(Spanned(Ident(primary.v), primary.span))
      [] primary.kind = "Char" -> Ok(Spanned(Bit(primary.v), primary.span))
      [] primary.kind = "String" ->
            IF primary.v \in DOMAIN TBL
            THEN Ok(Spanned(Operator(TBL[primary.v]), primary.span))
            ELSE Ok(Spanned(Ident(primary.v), primary.span))

resolvable_from_primary_name(primary) ==
    CASE primary.kind = "Ident" -> Ok(Spanned(Ident(primary.v), primary.span))
      [] primary.kind = "Char" -> Ok(Spanned(Bit(primary.v), primary.span))
      [] primary.kind = "String" ->
            IF primary.v \in DOMAIN TBL
            THEN Ok(Spanned(Operator(TBL[primary.v]), primary.span))
            ELSE Err(<<DiagNotOperator(primary)>>)

\* The mutant of CollectDefs: the definitions of a later holder come first.
RECURSIVE CollectDefsPrepending(_, _, _, _)
CollectDefsPrepending(e, holders, name, found_defs) ==
    IF holders = <<>> THEN Ok(found_defs)
    ELSE LET d == defs(e, Head(holders))
         IN  IF ~d.ok THEN Err(d.diags)
             ELSE CollectDefsPrepending(e, Tail(holders), name,
                                        DefsGet(d.value, name.value) \o found_defs)

\* The loop over scope.defs: the definitions of each holder in turn.
RECURSIVE CollectDefs(_, _, _, _)
CollectDefs(e, holders, name, found_defs) ==
    IF holders = <<>> THEN Ok(found_defs)
    ELSE LET d == defs(e, Head(holders))
         IN  IF ~d.ok THEN Err(d.diags)
             ELSE CollectDefs(e, Tail(holders), name,
                              found_defs \o DefsGet(d.value, name.value))

\* The mutant of LookIn: with only_defs = false the holders are skipped and
\* only the explicit definitions are looked at.
LookInExplicit(e, name, scope_id, only_defs) ==
    IF only_defs
    THEN LET d == defs(e, scope_id)
         IN  IF ~d.ok THEN Err(d.diags)
             ELSE Ok([found_defs |-> DefsGet(d.value, name.value), parent_id |-> None])
    ELSE LET s == scope(e, scope_id)
         IN  IF ~s.ok THEN Err(s.diags)
             ELSE Ok([found_defs |-> DefsGet(s.value.explicit_defs, name.value),
                      parent_id  |-> s.value.parent])

\* The mutant of LookIn: the explicit definitions are collected before
\* those of the holders.
LookInExplicitFirst(e, name, scope_id, only_defs) ==
    IF only_defs
    THEN LET d == defs(e, scope_id)
         IN  IF ~d.ok THEN Err(d.diags)
             ELSE Ok([found_defs |-> DefsGet(d.value, name.value), parent_id |-> None])
    ELSE LET s == scope(e, scope_id)
         IN  IF ~s.ok THEN Err(s.diags)
             ELSE LET c == CollectDefs(e, s.value.defs, name, <<>>)
                  IN  IF ~c.ok THEN Err(c.diags)
                      ELSE Ok([found_defs |->
                                   DefsGet(s.value.explicit_defs, name.value) \o c.value,
                               parent_id  |-> s.value.parent])

\* The first half of resolve_name: what one scope contributes, and the
\* parent to escalate to.
LookIn(e, name, scope_id, only_defs) ==
    IF only_defs
    THEN LET d == defs(e, scope_id)
         IN  IF ~d.ok THEN Err(d.diags)
             ELSE Ok([found_defs |-> DefsGet(d.value, name.value), parent_id |-> None])
    ELSE LET s == scope(e, scope_id)
         IN  IF ~s.ok THEN Err(s.diags)
             ELSE LET c == CollectDefs(e, s.value.defs, name, <<>>)
                  IN  IF ~c.ok THEN Err(c.diags)
                      ELSE Ok([found_defs |->
                                   c.value \o DefsGet(s.value.explicit_defs, name.value),
                               parent_id  |-> s.value.parent])

\* The mutant of resolve_name: the parent is asked also when the scope has
\* contributed, and what it finds is added.
RECURSIVE resolve_name_outward(_, _, _, _)
resolve_name_outward(e, name, scope_id, only_defs) ==
    LET looked == LookIn(e, name, scope_id, only_defs)
    IN  IF ~looked.ok THEN Err(looked.diags)
        ELSE IF looked.value.parent_id # None
             THEN LET up == resolve_name_outward(e, name, looked.value.parent_id,
                                                 only_defs)
                  IN  IF up.ok THEN Ok(looked.value.found_defs \o up.value)
                      ELSE IF looked.value.found_defs = <<>> THEN up
                      ELSE Ok(looked.value.found_defs)
             ELSE IF looked.value.found_defs = <<>>
                  THEN Err(<<DiagNotKnown(name)>>)
                  ELSE Ok(looked.value.found_defs)

\* The mutant of resolve_name: a scope that contributes nothing ends the
\* resolution, the parent is never asked.
resolve_name_here(e, name, scope_id, only_defs) ==
    LET looked == LookIn(e, name, scope_id, only_defs)
    IN  IF ~looked.ok THEN Err(looked.diags)
        ELSE IF looked.value.found_defs = <<>>
             THEN Err(<<DiagNotKnown(name)>>)
             ELSE Ok(looked.value.found_defs)

RECURSIVE resolve_name(_, _, _, _)
resolve_name(e, name, scope_id, only_defs) ==
    LET looked == LookIn(e, name, scope_id, only_defs)
    IN  IF ~looked.ok THEN Err(looked.diags)
        ELSE IF looked.value.found_defs = <<>>
             THEN IF looked.value.parent_id # None
                  THEN resolve_name(e, name, looked.value.parent_id, only_defs)
                  ELSE Err(<<DiagNotKnown(name)>>)
             ELSE Ok(looked.value.found_defs)

\* The mutant of SelectDef: of several candidates the first is taken.
SelectFirst(found, seen_span) == Ok(found[1])

\* A selector needs the name so far to denote one definition.
SelectDef(found, seen_span) ==
    IF Len(found) = 1 THEN Ok(found[1])
    ELSE Err(<<DiagAmbiguous(seen_span, found)>>)

\* The mutant of ScopeOfDef: every definition is selected into.
ScopeOfAnyDef(d, pn) == Ok(d.id)

\* The scope a definition can be selected into.
ScopeOfDef(d, pn) ==
    CASE d.kind = "Lib" -> Ok(d.id)
      [] d.kind = "Pkg" -> Ok(d.id)
      [] d.kind = "PkgInst" -> Ok(d.id)
      [] d.kind = "BuiltinPkg" -> Ok(d.id)
      [] OTHER -> Err(<<DiagCannotSelect(d, pn)>>)

\* The mutant of ResolveParts: a selector is resolved with only_defs = false,
\* through the holders and the parents of the scope selected.
RECURSIVE ResolvePartsWide(_, _, _, _, _, _)
ResolvePartsWide(e, name, i, res_name, found, seen_span) ==
    IF i > Len(name.parts)
    THEN Ok([name |-> res_name.value, defs |-> found, span |-> seen_span,
             parts |-> <<>>])
    ELSE IF name.parts[i].kind # "Select"
    THEN Ok([name |-> res_name.value, defs |-> found, span |-> seen_span,
             parts |-> SubSeq(name.parts, i, Len(name.parts))])
    ELSE LET pn == name.parts[i].pn
             d  == SelectDef(found, seen_span)
         IN  IF ~d.ok THEN Err(d.diags)
             ELSE LET sc == ScopeOfDef(d.value.value, pn)
                  IN  IF ~sc.ok THEN Err(sc.diags)
                      ELSE LET rn == resolvable_from_primary_name(pn)
                           IN  IF ~rn.ok THEN Err(rn.diags)
                               ELSE LET ds == resolve_name(e, rn.value, sc.value, FALSE)
                                    IN  IF ~ds.ok THEN Err(ds.diags)
                                        ELSE ResolvePartsWide(e, name, i + 1, rn.value,
                                                 ds.value, expand(seen_span, pn.span))

\* The mutant of ResolveParts: the part the loop stops at is dropped from the
\* parts handed back.
RECURSIVE ResolvePartsSkipping(_, _, _, _, _, _)
ResolvePartsSkipping(e, name, i, res_name, found, seen_span) ==
    IF i > Len(name.parts)
    THEN Ok([name |-> res_name.value, defs |-> found, span |-> seen_span,
             parts |-> <<>>])
    ELSE IF name.parts[i].kind # "Select"
    THEN Ok([name |-> res_name.value, defs |-> found, span |-> seen_span,
             parts |-> SubSeq(name.parts, i + 1, Len(name.parts))])
    ELSE LET pn == name.parts[i].pn
             d  == SelectDef(found, seen_span)
         IN  IF ~d.ok THEN Err(d.diags)
             ELSE LET sc == ScopeOfDef(d.value.value, pn)
                  IN  IF ~sc.ok THEN Err(sc.diags)
                      ELSE LET rn == resolvable_from_primary_name(pn)
                           IN  IF ~rn.ok THEN Err(rn.diags)
                               ELSE LET ds == resolve_name(e, rn.value, sc.value, TRUE)
                                    IN  IF ~ds.ok THEN Err(ds.diags)
                                        ELSE ResolvePartsSkipping(e, name, i + 1, rn.value,
                                                 ds.value, expand(seen_span, pn.span))

\* The loop of resolve_compound_name over the parts of the name, from part i.
RECURSIVE ResolveParts(_, _, _, _, _, _)
ResolveParts(e, name, i, res_name, found, seen_span) ==
    IF i > Len(name.parts)
    THEN Ok([name |-> res_name.value, defs |-> found, span |-> seen_span,
             parts |-> <<>>])
    ELSE IF name.parts[i].kind # "Select"
    THEN Ok([name |-> res_name.value, defs |-> found, span |-> seen_span,
             parts |-> SubSeq(name.parts, i, Len(name.parts))])
    ELSE LET pn == name.parts[i].pn
             d  == SelectDef(found, seen_span)
         IN  IF ~d.ok THEN Err(d.diags)
             ELSE LET sc == ScopeOfDef(d.value.value, pn)
                  IN  IF ~sc.ok THEN Err(sc.diags)
                      ELSE LET rn == resolvable_from_primary_name(pn)
                           IN  IF ~rn.ok THEN Err(rn.diags)
                               ELSE LET ds == resolve_name(e, rn.value, sc.value, TRUE)
                                    IN  IF ~ds.ok THEN Err(ds.diags)
                                        ELSE ResolveParts(e, name, i + 1, rn.value,
                                                 ds.value, expand(seen_span, pn.span))

resolve_compound_name(e, name, scope_id, only_defs) ==
    LET rn == resolvable_from_primary_name(name.primary)
    IN  IF ~rn.ok THEN Err(rn.diags)
        ELSE LET ds == resolve_name(e, rn.value, scope_id, only_defs)
             IN  IF ~ds.ok THEN Err(ds.diags)
                 ELSE ResolveParts(e, name, 1, rn.value, ds.value, name.primary.span)

(***************************************************************************)
(* The sessions name resolution is applied to.                             *)
(***************************************************************************)
Scopes == {1, 2, 3}

NoDefs == [n \in {} |-> <<>>]

NoEnv == [scope_table |-> EmptyTable, def_table |-> EmptyTable, ty_table |-> EmptyTable]

NoCall == [op |-> "none"]

\* A declaration: the definition of a node and the span of its name.
Decl(kind, id, at) == Spanned(Def(kind, id), Span(at, at + 1))

\* Defs with at most one entry.
Entry(name, found) == IF found = <<>> THEN NoDefs ELSE (name :> found)

NewScope(parent, holders, explicit_defs) ==
    [parent |-> parent, defs |-> holders, explicit_defs |-> explicit_defs]

Restrict(table, keys) == [k \in (DOMAIN table) \cap keys |-> table[k]]

\* The products whose make fails: none, the defs of one scope, or the scope
\* of one scope.
Failing ==
    {[defs |-> {}, scope |-> {}]}
        \cup {[defs |-> {s}, scope |-> {}] : s \in Scopes}
        \cup {[defs |-> {}, scope |-> {s}] : s \in Scopes}

\* Sessions for resolve_name.  Scope 1 is a root; scope 2 lies in it or is a
\* root; scope 3 lies in scope 2 or is a root.  Every scope lists its own
\* definitions among its holders, scopes 2 and 3 may also list those of
\* scope 1.  The name a is declared in the scopes of da, twice in scope 1,
\* and imported explicitly into the scopes of xa; b is declared nowhere.
ResolveEnv(p2, p3, h2, h3, da, xa, gone) ==
    LET declared == [s \in Scopes |->
                        IF s \notin da THEN <<>>
                        ELSE IF s = 1
                        THEN <<Decl("Enum", 11, 110), Decl("Enum", 12, 120)>>
                        ELSE <<Decl("Signal", 10 + s, 100 + 10 * s)>>]
        imported == [s \in Scopes |->
                        IF s \in xa THEN <<Decl("Const", 20 + s, 200 + 10 * s)>>
                        ELSE <<>>]
        st == [s \in Scopes |->
                  NewScope(IF s = 2 THEN p2 ELSE IF s = 3 THEN p3 ELSE None,
                           IF s = 2 THEN h2 ELSE IF s = 3 THEN h3 ELSE <<1>>,
                           Entry(Ident("a"), imported[s]))]
        dt == [s \in Scopes |-> Entry(Ident("a"), declared[s])]
    IN  [scope_table |-> Restrict(st, Scopes \ gone.scope),
         def_table   |-> Restrict(dt, Scopes \ gone.defs),
         ty_table    |-> EmptyTable]

ResolveEnvs ==
    {ResolveEnv(p2, p3, h2, h3, da, xa, gone) :
        p2 \in {None, 1}, p3 \in {None, 2},
        h2 \in {<<2>>, <<2, 1>>}, h3 \in {<<3>>, <<3, 1>>, <<1, 3>>},
        da \in SUBSET Scopes, xa \in SUBSET {2, 3}, gone \in Failing}

\* Sessions for resolve_compound_name.  Scope 1 is the root, scope 2 lies in
\* it and scope 3 in scope 2.  In scope 1 the name a has the definitions e1:
\* none, one of any kind (with the scope 2 where it has one), or an entity
\* and a package; b is an enumeration literal or undeclared.  In scope 2 the
\* name b has the definitions e2, in scope 3 the name a the definitions e3.
CompoundEnv(e1, b1, e2, e3, h2, gone) ==
    LET st == [s \in Scopes |->
                  NewScope(IF s = 1 THEN None ELSE s - 1,
                           IF s = 2 THEN h2 ELSE <<s>>, NoDefs)]
        dt == [s \in Scopes |->
                  CASE s = 1 -> Entry(Ident("a"), e1) @@ Entry(Ident("b"), b1)
                    [] s = 2 -> Entry(Ident("b"), e2)
                    [] s = 3 -> Entry(Ident("a"), e3)]
    IN  [scope_table |-> Restrict(st, Scopes \ gone.scope),
         def_table   |-> Restrict(dt, Scopes \ gone.defs),
         ty_table    |-> EmptyTable]

CompoundEnvs ==
    {CompoundEnv(e1, b1, e2, e3, h2, gone) :
        e1 \in {<<>>, <<Decl("Entity", 4, 140), Decl("Pkg", 2, 120)>>}
                  \cup {<<Decl(k, 2, 120)>> : k \in DefKinds},
        b1 \in {<<>>, <<Decl("Enum", 15, 150)>>},
        e2 \in {<<>>, <<Decl("Pkg", 3, 230)>>,
                <<Decl("Pkg", 3, 230), Decl("PkgInst", 3, 240)>>},
        e3 \in {<<>>, <<Decl("Signal", 17, 370)>>},
        h2 \in {<<2>>, <<2, 1>>},
        gone \in {g \in Failing : g.scope = {} /\ g.defs \subseteq {2}}}

(***************************************************************************)
(* The names of the design.                                                *)
(***************************************************************************)
\* ast::PrimaryName: the i-th name of a compound name spans token i.
PrimaryName(kind, v, i) == [kind |-> kind, v |-> v, span |-> Span(i, i + 1)]

\* ast::NamePart: a selector, or a part that resolve_compound_name leaves to
\* its caller.
Select(pn) == [kind |-> "Select", pn |-> pn]

CallPart(i) == [kind |-> "Call", pn |-> PrimaryName("Ident", "", i)]

PartsAt(i) ==
    {Select(PrimaryName("Ident", "a", i)), Select(PrimaryName("Ident", "b", i)),
     CallPart(i)}

\* The sequences of at most n parts that follow the primary name.
RECURSIVE PartSeqs(_)
PartSeqs(n) ==
    IF n = 0 THEN {<<>>}
    ELSE PartSeqs(n - 1)
            \cup {Append(ps, p) : ps \in {q \in PartSeqs(n - 1) : Len(q) = n - 1},
                                  p \in PartsAt(n + 1)}

CompoundName(primary, parts) == [primary |-> primary, parts |-> parts]

CompoundNames ==
    {CompoundName(primary, parts) :
        primary \in {PrimaryName("Ident", "a", 1), PrimaryName("Ident", "b", 1),
                     PrimaryName("String", "foo", 1)},
        parts \in PartSeqs(MaxParts)}

(***************************************************************************)
(* The calls.                                                              *)
(***************************************************************************)
ResolveName(name, scope_id, only_defs) ==
    /\ out = NoCall
    /\ out' = [op |-> "resolve_name", name |-> name, scope_id |-> scope_id,
               only_defs |-> only_defs,
               res |-> resolve_name(env, name, scope_id, only_defs)]
    /\ UNCHANGED <<env, sbvars>>

ResolveCompoundName(name, scope_id, only_defs) ==
    /\ out = NoCall
    /\ out' = [op |-> "resolve_compound_name", name |-> name,
               scope_id |-> scope_id, only_defs |-> only_defs,
               res |-> resolve_compound_name(env, name, scope_id, only_defs)]
    /\ UNCHANGED <<env, sbvars>>

ResolvableFromPrimaryName(primary) ==
    /\ out = NoCall
    /\ out' = [op |-> "resolvable_from_primary_name", primary |-> primary,
               res |-> resolvable_from_primary_name(primary)]
    /\ UNCHANGED <<env, sbvars>>

(***************************************************************************)
(* The display of operators.                                               *)
(***************************************************************************)
\* The arms of Display for Operator.
OperatorSpellings ==
    <<<<"Logical(And)", "and">>, <<"Logical(Or)", "or">>, <<"Logical(Nand)", "nand">>,
      <<"Logical(Nor)", "nor">>, <<"Logical(Xor)", "xor">>, <<"Logical(Xnor)", "xnor">>,
      <<"Rel(Eq)", "=">>, <<"Rel(Neq)", "/=">>, <<"Rel(Lt)", "<">>,
      <<"Rel(Leq)", "<=">>, <<"Rel(Gt)", ">">>, <<"Rel(Geq)", ">=">>,
      <<"Match(Eq)", "?=">>, <<"Match(Neq)", "?/=">>, <<"Match(Lt)", "?<">>,
      <<"Match(Leq)", "?<=">>, <<"Match(Gt)", "?>">>, <<"Match(Geq)", "?>=">>,
      <<"Shift(Sll)", "sll">>, <<"Shift(Srl)", "srl">>, <<"Shift(Sla)", "sla">>,
      <<"Shift(Sra)", "sra">>, <<"Shift(Rol)", "rol">>, <<"Shift(Ror)", "ror">>,
      <<"Add", "+">>, <<"Sub", "-">>, <<"Concat", "&">>, <<"Mul", "*">>,
      <<"Div", "/">>, <<"Mod", "mod">>, <<"Rem", "rem">>, <<"Pow", "**">>,
      <<"Abs", "abs">>, <<"Not", "not">>>>

\* The values of Operator: the match of Display is exhaustive.
Operators == {OperatorSpellings[i][1] : i \in 1..Len(OperatorSpellings)}

\* The mutant of fmt: a matching operator is shown as the ordinary one.
fmt_unmatched(op) ==
    LET i == CHOOSE k \in 1..Len(OperatorSpellings) : OperatorSpellings[k][1] = op
        s == OperatorSpellings[i][2]
    IN  IF i \in 13..18 THEN OperatorSpellings[i - 6][2] ELSE s

\* Display::fmt for Operator: the first arm that matches writes its spelling.
fmt(op) ==
    OperatorSpellings[CHOOSE k \in 1..Len(OperatorSpellings) :
                          /\ OperatorSpellings[k][1] = op
                          /\ \A j \in 1..(k - 1) : OperatorSpellings[j][1] # op][2]

\* An operator is displayed and the spelling is resolved as a primary name.
DisplayOperator(op) ==
    /\ out = NoCall
    /\ out' = [op |-> "display", operator |-> op, shown |-> fmt(op),
               res |-> resolvable_from_primary_name(PrimaryName("String", fmt(op), 1))]
    /\ UNCHANGED <<env, sbvars>>
(***************************************************************************)
(* Part 3: the built-in environment.                                       *)
(***************************************************************************)
ROOT_SCOPE_REF == 1

STD_LIB_REF == 2

STANDARD_PKG_REF == 3

TEXTIO_PKG_REF == 4

ENV_PKG_REF == 5

\* The handles of the built-in types, in the order of BUILTIN_TYPES.
BuiltinTypeNames ==
    <<"BOOLEAN", "BIT", "SEVERITY_LEVEL", "INTEGER", "TIME", "DELAY_LENGTH",
      "NATURAL", "POSITIVE", "BOOLEAN_VECTOR", "BIT_VECTOR", "INTEGER_VECTOR",
      "TIME_VECTOR", "FILE_OPEN_KIND", "FILE_OPEN_STATUS">>

TypeId(name) ==
    30 + (CHOOSE i \in 1..Len(BuiltinTypeNames) : BuiltinTypeNames[i] = name)

\* EnumRef(type, index) and UnitRef(type, index) as one handle.
EnumRef(ty, index) == 100 * ty + index

UnitRef(ty, index) == 100 * ty + index

BUILTIN_UNARY_OPS ==
    <<"Pos", "Neg", "Abs", "Cond", "Not", "Logical(And)", "Logical(Or)",
      "Logical(Nand)", "Logical(Nor)", "Logical(Xor)", "Logical(Xnor)">>

\* The mutant of BUILTIN_BINARY_OPS: "<=" has no predefined implementation.
BUILTIN_BINARY_OPS_NoLeq ==
    <<"Logical(And)", "Logical(Or)", "Logical(Nand)", "Logical(Nor)",
      "Logical(Xor)", "Logical(Xnor)",
      "Rel(Eq)", "Rel(Neq)", "Rel(Lt)", "Rel(Gt)", "Rel(Geq)",
      "Match(Eq)", "Match(Neq)", "Match(Lt)", "Match(Leq)", "Match(Gt)", "Match(Geq)",
      "Shift(Sll)", "Shift(Srl)", "Shift(Sla)", "Shift(Sra)", "Shift(Rol)", "Shift(Ror)",
      "Add", "Sub", "Concat", "Mul", "Div", "Mod", "Rem", "Pow">>

BUILTIN_BINARY_OPS ==
    <<"Logical(And)", "Logical(Or)", "Logical(Nand)", "Logical(Nor)",
      "Logical(Xor)", "Logical(Xnor)",
      "Rel(Eq)", "Rel(Neq)", "Rel(Lt)", "Rel(Leq)", "Rel(Gt)", "Rel(Geq)",
      "Match(Eq)", "Match(Neq)", "Match(Lt)", "Match(Leq)", "Match(Gt)", "Match(Geq)",
      "Shift(Sll)", "Shift(Srl)", "Shift(Sla)", "Shift(Sra)", "Shift(Rol)", "Shift(Ror)",
      "Add", "Sub", "Concat", "Mul", "Div", "Mod", "Rem", "Pow">>

\* UnaryOp into Operator: the unary + and - go by the symbols "+" and "-",
\* the condition operator has a symbol of its own.
UnaryIntoOperator(op) ==
    CASE op = "Pos" -> "Add"
      [] op = "Neg" -> "Sub"
      [] OTHER -> op

\* BinaryOp into Operator.
BinaryIntoOperator(op) == op

\* BuiltinUnaryOp::new and BuiltinBinaryOp::new: every operator gets a handle
\* of its own.
BuiltinUnaryOps ==
    [i \in 1..Len(BUILTIN_UNARY_OPS) |->
        [id |-> 100 + i, op |-> UnaryIntoOperator(BUILTIN_UNARY_OPS[i])]]

BuiltinBinaryOps ==
    [i \in 1..Len(BUILTIN_BINARY_OPS) |->
        [id |-> 200 + i, op |-> BinaryIntoOperator(BUILTIN_BINARY_OPS[i])]]

\* Scope::new of the built-in environment.
ScopeNew(parent) == [parent |-> parent, defs |-> NoDefs, imported_scopes |-> {}]

define_builtin(sc, name, d) ==
    [sc EXCEPT !.defs = (name :> <<Spanned(d, INVALID_SPAN)>>) @@ @]

define_builtin_ident(sc, name, d) == define_builtin(sc, Ident(name), d)

define_builtin_bit(sc, bit, d) == define_builtin(sc, Bit(bit), d)

define_builtin_op(sc, op, id) ==
    LET name == Operator(op)
    IN  [sc EXCEPT !.defs =
            (name :> Append(DefsGet(sc.defs, name),
                            Spanned(Def("BuiltinOp", id), INVALID_SPAN))) @@ @]

\* for op in ops.iter() { define_builtin_op(&mut scope, op.op, op.id) }
RECURSIVE DefineOps(_, _)
DefineOps(sc, ops) ==
    IF ops = <<>> THEN sc
    ELSE DefineOps(define_builtin_op(sc, Head(ops).op, Head(ops).id), Tail(ops))

\* A run of define_builtin_ident and define_builtin_bit.
RECURSIVE DefineAll(_, _)
DefineAll(sc, items) ==
    IF items = <<>> THEN sc
    ELSE DefineAll(define_builtin(sc, Head(items).name, Head(items).def), Tail(items))

Item(name, d) == [name |-> name, def |-> d]

\* The literals of an enumeration type, or the units of a physical type.
Members(kind, ty, names) ==
    [i \in 1..Len(names) |-> Item(Ident(names[i]), Def(kind, 100 * ty + (i - 1)))]

ROOT_SCOPE ==
    LET s1 == define_builtin_ident(ScopeNew(None), "STD", Def("Lib", STD_LIB_REF))
        s2 == [s1 EXCEPT !.imported_scopes = @ \cup {STANDARD_PKG_REF}]
    IN  DefineOps(DefineOps(s2, BuiltinUnaryOps), BuiltinBinaryOps)

STD_LIB_SCOPE ==
    DefineAll(ScopeNew(ROOT_SCOPE_REF),
              <<Item(Ident("STANDARD"), Def("BuiltinPkg", STANDARD_PKG_REF)),
                Item(Ident("TEXTIO"), Def("BuiltinPkg", TEXTIO_PKG_REF)),
                Item(Ident("ENV"), Def("BuiltinPkg", ENV_PKG_REF))>>)

STANDARD_PKG_SCOPE ==
    DefineAll(ScopeNew(STD_LIB_REF),
        <<Item(Ident("BOOLEAN"), Def("Type", TypeId("BOOLEAN")))>>
        \o Members("Enum", TypeId("BOOLEAN"), <<"FALSE", "TRUE">>)
        \o <<Item(Ident("BIT"), Def("Type", TypeId("BIT"))),
             Item(Bit("0"), Def("Enum", EnumRef(TypeId("BIT"), 0))),
             Item(Bit("1"), Def("Enum", EnumRef(TypeId("BIT"), 1))),
             Item(Ident("SEVERITY_LEVEL"), Def("Type", TypeId("SEVERITY_LEVEL")))>>
        \o Members("Enum", TypeId("SEVERITY_LEVEL"),
                   <<"NOTE", "WARNING", "ERROR", "FAILURE">>)
        \o <<Item(Ident("INTEGER"), Def("Type", TypeId("INTEGER"))),
             Item(Ident("TIME"), Def("Type", TypeId("TIME")))>>
        \o Members("Unit", TypeId("TIME"),
                   <<"fs", "ps", "ns", "us", "ms", "sec", "min", "hr">>)
        \o [i \in 1..6 |->
               LET name == <<"DELAY_LENGTH", "NATURAL", "POSITIVE", "BOOLEAN_VECTOR",
                             "BIT_VECTOR", "INTEGER_VECTOR">>[i]
               IN  Item(Ident(name), Def("Type", TypeId(name)))]
        \o <<Item(Ident("TIME_VECTOR"), Def("Type", TypeId("TIME_VECTOR"))),
             Item(Ident("FILE_OPEN_KIND"), Def("Type", TypeId("FILE_OPEN_KIND")))>>
        \o Members("Enum", TypeId("FILE_OPEN_KIND"),
                   <<"READ_MODE", "WRITE_MODE", "APPEND_MODE">>)
        \o <<Item(Ident("FILE_OPEN_STATUS"), Def("Type", TypeId("FILE_OPEN_STATUS")))>>
        \o Members("Enum", TypeId("FILE_OPEN_STATUS"),
                   <<"OPEN_OK", "STATUS_ERROR", "NAME_ERROR", "MODE_ERROR">>))

\* A handle allocated for TIME apart from the one of TIME_TYPE.
TIME_TYPE_REF == 45

\* The types of ty.rs, as far as the built-ins use them.
IntTy(dir, left, right) == [kind |-> "Int", dir |-> dir, left |-> left, right |-> right]

EnumTy(decl) == [kind |-> "Enum", decl |-> decl]

Named(name, id) == [kind |-> "Named", name |-> name, id |-> id]

Unbounded(ty) == [kind |-> "Unbounded", ty |-> ty]

ArrayTy(indices, element) == [kind |-> "Array", indices |-> indices, element |-> element]

PhysicalTy(decl, base, units, primary) ==
    [kind |-> "Physical", decl |-> decl, base |-> base, units |-> units,
     primary |-> primary]

\* A number digits * 10^zeros, for the scales that exceed 32 bits.
Scaled(digits, zeros) == [digits |-> digits, zeros |-> zeros]

\* The mutant of named_unit: no unit refers to another.
named_unit_alone(name, abs, rel) == [name |-> name, abs |-> abs, rel |-> <<>>]

\* named_unit: Option<(scale, index)> as a sequence of at most one element.
named_unit(name, abs, rel) == [name |-> name, abs |-> abs, rel |-> rel]

named_builtin_type(name, type_ref) == Named(name, type_ref)

make_time_type(decl, base) ==
    PhysicalTy(decl, base,
        <<named_unit("fs",  Scaled(1, 0),   <<>>),
          named_unit("ps",  Scaled(1, 3),   <<[scale |-> 1000, index |-> 0]>>),
          named_unit("ns",  Scaled(1, 6),   <<[scale |-> 1000, index |-> 1]>>),
          named_unit("us",  Scaled(1, 9),   <<[scale |-> 1000, index |-> 2]>>),
          named_unit("ms",  Scaled(1, 12),  <<[scale |-> 1000, index |-> 3]>>),
          named_unit("sec", Scaled(1, 15),  <<[scale |-> 1000, index |-> 4]>>),
          named_unit("min", Scaled(6, 16),  <<[scale |-> 60, index |-> 5]>>),
          named_unit("hr",  Scaled(36, 17), <<[scale |-> 60, index |-> 6]>>)>>,
        0)

\* BuiltinType::named_ty
named_ty(name) == Named(name, TypeId(name))

\* The type of each built-in type.
BuiltinTy(name) ==
    CASE name \in {"BOOLEAN", "BIT", "SEVERITY_LEVEL", "FILE_OPEN_KIND",
                   "FILE_OPEN_STATUS"} -> EnumTy(TypeId(name))
      [] name = "INTEGER" -> IntTy("To", "i32::MIN", "i32::MAX")
      [] name = "TIME" ->
            make_time_type(TypeId(name), IntTy("To", "i64::MIN", "i64::MAX"))
      [] name = "DELAY_LENGTH" ->
            make_time_type(TypeId(name), IntTy("To", "0", "i64::MAX"))
      [] name = "NATURAL" -> IntTy("To", "0", "i32::MAX")
      [] name = "POSITIVE" -> IntTy("To", "1", "i32::MAX")
      [] name = "BOOLEAN_VECTOR" ->
            ArrayTy(<<Unbounded(named_ty("NATURAL"))>>, named_ty("BOOLEAN"))
      [] name = "BIT_VECTOR" ->
            ArrayTy(<<Unbounded(named_ty("NATURAL"))>>, named_ty("BIT"))
      [] name = "INTEGER_VECTOR" ->
            ArrayTy(<<Unbounded(named_ty("NATURAL"))>>, named_ty("INTEGER"))
      [] name = "TIME_VECTOR" ->
            ArrayTy(<<Unbounded(named_ty("NATURAL"))>>,
                    named_builtin_type("TIME", TIME_TYPE_REF))

BUILTIN_TYPES ==
    [i \in 1..Len(BuiltinTypeNames) |->
        [id |-> TypeId(BuiltinTypeNames[i]), ty |-> BuiltinTy(BuiltinTypeNames[i])]]

BUILTIN_SCOPES ==
    <<[id |-> ROOT_SCOPE_REF, scope |-> ROOT_SCOPE],
      [id |-> STD_LIB_REF, scope |-> STD_LIB_SCOPE],
      [id |-> STANDARD_PKG_REF, scope |-> STANDARD_PKG_SCOPE]>>

\* The scopes a scope imports, as holders.
Imported(sc) ==
    IF sc.imported_scopes = {} THEN <<>>
    ELSE <<CHOOSE id \in sc.imported_scopes : TRUE>>

\* The tables of a session that hold the built-ins: the definitions of each
\* scope, the scope with itself and its imports as holders, and the types.
BuiltinTables ==
    [scope_table |->
        [id \in {b.id : b \in {BUILTIN_SCOPES[i] : i \in 1..Len(BUILTIN_SCOPES)}} |->
            LET sc == (CHOOSE b \in {BUILTIN_SCOPES[i] : i \in 1..Len(BUILTIN_SCOPES)} :
                          b.id = id).scope
            IN  NewScope(sc.parent, <<id>> \o Imported(sc), NoDefs)],
     def_table |->
        [id \in {b.id : b \in {BUILTIN_SCOPES[i] : i \in 1..Len(BUILTIN_SCOPES)}} |->
            (CHOOSE b \in {BUILTIN_SCOPES[i] : i \in 1..Len(BUILTIN_SCOPES)} :
                b.id = id).scope.defs],
     ty_table |->
        [id \in {BUILTIN_TYPES[i].id : i \in 1..Len(BUILTIN_TYPES)} |->
            (CHOOSE b \in {BUILTIN_TYPES[i] : i \in 1..Len(BUILTIN_TYPES)} :
                b.id = id).ty]]

\* The mutant of RegisterBuiltins: a session that holds the built-ins already
\* refuses them.
RegisterBuiltinsOnce ==
    /\ out = NoCall
    /\ calls < MaxCalls
    /\ calls' = calls + 1
    /\ IF ROOT_SCOPE_REF \in DOMAIN env.scope_table
       THEN panicked' = "BuiltinIntegrity" /\ UNCHANGED env
       ELSE /\ env' = [scope_table |-> BuiltinTables.scope_table @@ env.scope_table,
                       def_table   |-> BuiltinTables.def_table @@ env.def_table,
                       ty_table    |-> BuiltinTables.ty_table @@ env.ty_table]
            /\ UNCHANGED panicked
    /\ UNCHANGED <<out, sb, stack, demand, faulty, arena, diags, makes, returned, result>>

\* register_builtins, called before any name is resolved: HashMap::extend
\* adds the built-in scopes and types to the tables, replacing what is stored
\* under their handles.  It returns nothing and has no failure.
RegisterBuiltins ==
    /\ out = NoCall
    /\ calls < MaxCalls
    /\ calls' = calls + 1
    /\ env' = [scope_table |-> BuiltinTables.scope_table @@ env.scope_table,
               def_table   |-> BuiltinTables.def_table @@ env.def_table,
               ty_table    |-> BuiltinTables.ty_table @@ env.ty_table]
    /\ UNCHANGED <<out, sb, stack, demand, faulty, arena, panicked, diags, makes,
                   returned, result>>

\* The primary names the built-in environment is asked for: every operator
\* symbol, strings that are none, identifiers and characters.
BuiltinPrimaries ==
    {PrimaryName("String", s, 1) : s \in (DOMAIN TBL) \cup {"foo", "=>", "??", ""}}
        \cup {PrimaryName("Ident", n, 1) : n \in {"STD", "STANDARD", "TRUE", "x"}}
        \cup {PrimaryName("Char", c, 1) : c \in {"0", "1", "x"}}

BuiltinNames ==
    {CompoundName(primary, parts) :
        primary \in BuiltinPrimaries,
        parts \in {<<>>, <<Select(PrimaryName("Ident", "STANDARD", 2))>>,
                   <<Select(PrimaryName("Ident", "STANDARD", 2)),
                     Select(PrimaryName("Ident", "TRUE", 3))>>}}

(***************************************************************************)
(* Part 4.  The architecture indexer: archs(LibRef).                       *)
(***************************************************************************)
MaxArchs == 2

\* hir::Lib::new
LibNew ==
    [entities |-> <<>>, cfgs |-> <<>>, pkg_decls |-> <<>>, pkg_insts |-> <<>>,
     ctxs |-> <<>>, archs |-> <<>>, pkg_bodies |-> <<>>]

\* The accessor hir of part 1, seen from a caller.
hir(e, id) ==
    IF id \in DOMAIN e.hir_table THEN Ok(e.hir_table[id])
    ELSE Err(<<DiagMake("hir", id)>>)

\* ArchTable::new
ArchTableNew == [by_arch |-> EmptyTable, by_entity |-> EmptyTable]

\* EntityArchTable::new
EntityArchTableNew == [ordered |-> <<>>, by_name |-> EmptyTable]

\* HashMap::insert: a later value replaces an earlier one under the same key.
MapInsert(map, key, value) == (key :> value) @@ map

DiagNotEntityName(target) ==
    [msg |-> "is not a valid entity name", about |-> target.span,
     spans |-> <<target.span>>]

DiagNotEntity(n, target, last) ==
    [msg |-> "is not an entity", about |-> Ident(n),
     spans |-> <<target.span, last.span>>]

DiagUnknownEntity(n, target) ==
    [msg |-> "Unknown entity", about |-> Ident(n), spans |-> <<target.span>>]

\* The simple entity name of an architecture's target, if it is one.
EntityNameOf(target) ==
    IF target.parts = <<>> /\ target.primary.kind = "Ident"
    THEN {target.primary.v} ELSE {}

\* The mutant of DecidingDef: the first definition decides.
DecidingFirst(found) == found[1]

\* The definition that decides what a target name refers to.
DecidingDef(found) == found[Len(found)]

\* The mutant of ArchFailed: the loop ends at the first failure.
ArchFailedStop(st, diag) ==
    [st EXCEPT !.had_fails = TRUE, !.diags = Append(@, diag), !.stopped = TRUE]

\* One architecture that failed: its diagnostic is emitted and the loop goes
\* on with the next one.
ArchFailed(st, diag) ==
    [st EXCEPT !.had_fails = TRUE, !.diags = Append(@, diag)]

\* The mutant of ArchInsert: the inverse mapping is left out.
ArchInsertNoInverse(st, arch_ref, arch, entity) ==
    [st EXCEPT !.res.by_entity[entity].ordered = Append(@, arch_ref),
               !.res.by_entity[entity].by_name =
                   MapInsert(@, arch.name.value, arch_ref)]

\* The results of one architecture go into the table of its entity; an
\* entity without an entry ends the indexer by a panic.
ArchInsert(st, arch_ref, arch, entity) ==
    IF entity \notin DOMAIN st.res.by_entity
    THEN [st EXCEPT !.panicked = TRUE, !.stopped = TRUE]
    ELSE [st EXCEPT !.res.by_entity[entity].ordered = Append(@, arch_ref),
                    !.res.by_entity[entity].by_name =
                        MapInsert(@, arch.name.value, arch_ref),
                    !.res.by_arch = MapInsert(@, arch_ref, entity)]

\* The body of the loop over the architectures of the library.
ArchStep(e, found_defs, st, arch_ref) ==
    LET arch   == e.ast_table[arch_ref]
        target == arch.target
        names  == EntityNameOf(target)
    IN  IF names = {} THEN ArchFailed(st, DiagNotEntityName(target))
        ELSE LET n == CHOOSE x \in names : TRUE
             IN  IF Ident(n) \notin DOMAIN found_defs
                 THEN ArchFailed(st, DiagUnknownEntity(n, target))
                 ELSE LET last == DecidingDef(found_defs[Ident(n)])
                      IN  IF last.value.kind = "Entity"
                          THEN ArchInsert(st, arch_ref, arch, last.value.id)
                          ELSE ArchFailed(st, DiagNotEntity(n, target, last))

RECURSIVE ArchLoop(_, _, _, _, _)
ArchLoop(e, found_defs, archs, i, st) ==
    IF i > Len(archs) \/ st.stopped THEN st
    ELSE ArchLoop(e, found_defs, archs, i + 1,
                  ArchStep(e, found_defs, st, archs[i]))

\* The mutant of archs_make: by_entity starts without the entries of the
\* entities of the library.
archs_make_bare(e, id) ==
    LET lib == hir(e, id)
        ds  == defs(e, id)
    IN  IF ~lib.ok
        THEN [ok |-> FALSE, value |-> <<>>, diags |-> lib.diags, panicked |-> FALSE]
        ELSE IF ~ds.ok
        THEN [ok |-> FALSE, value |-> <<>>, diags |-> ds.diags, panicked |-> FALSE]
        ELSE LET st == ArchLoop(e, ds.value, lib.value.archs, 1,
                                [res |-> ArchTableNew, had_fails |-> FALSE,
                                 diags |-> <<>>, panicked |-> FALSE,
                                 stopped |-> FALSE])
             IN  IF st.panicked \/ st.had_fails
                 THEN [ok |-> FALSE, value |-> <<>>, diags |-> st.diags,
                       panicked |-> st.panicked]
                 ELSE [ok |-> TRUE, value |-> st.res, diags |-> <<>>,
                       panicked |-> FALSE]

\* NodeMaker<LibRef, &ArchTable>::make.  The scope of a library carries the
\* number of the library.
archs_make(e, id) ==
    LET lib == hir(e, id)
        ds  == defs(e, id)
    IN  IF ~lib.ok
        THEN [ok |-> FALSE, value |-> <<>>, diags |-> lib.diags, panicked |-> FALSE]
        ELSE IF ~ds.ok
        THEN [ok |-> FALSE, value |-> <<>>, diags |-> ds.diags, panicked |-> FALSE]
        ELSE LET res0 == [ArchTableNew EXCEPT !.by_entity =
                             [x \in {lib.value.entities[j] :
                                        j \in 1..Len(lib.value.entities)}
                                 |-> EntityArchTableNew]]
                 st == ArchLoop(e, ds.value, lib.value.archs, 1,
                                [res |-> res0, had_fails |-> FALSE,
                                 diags |-> <<>>, panicked |-> FALSE,
                                 stopped |-> FALSE])
             IN  IF st.panicked \/ st.had_fails
                 THEN [ok |-> FALSE, value |-> <<>>, diags |-> st.diags,
                       panicked |-> st.panicked]
                 ELSE [ok |-> TRUE, value |-> st.res, diags |-> <<>>,
                       panicked |-> FALSE]

\* The mutant of ArchsStore: a failed make leaves an empty table behind.
ArchsStoreAlways(table, id, made) ==
    IF made.ok THEN MapInsert(table, id, made.value)
    ELSE MapInsert(table, id, ArchTableNew)

\* What the accessor archs stores after make has returned.
ArchsStore(table, id, made) ==
    IF made.ok THEN MapInsert(table, id, made.value) ELSE table

\* The accessor archs: a stored table is returned as it is; otherwise make
\* runs and its table is stored.
Archs(id) ==
    /\ calls < MaxCalls
    /\ panicked = "none"
    /\ calls' = calls + 1
    /\ IF id \in DOMAIN sb.arch_table
       THEN /\ out' = [op |-> "archs", id |-> id, hit |-> TRUE,
                       res |-> [ok |-> TRUE, value |-> sb.arch_table[id],
                                diags |-> <<>>, panicked |-> FALSE]]
            /\ UNCHANGED <<sb, panicked>>
       ELSE LET made == archs_make(env, id)
            IN  /\ out' = [op |-> "archs", id |-> id, hit |-> FALSE, res |-> made]
                /\ sb' = [sb EXCEPT !.arch_table = ArchsStore(@, id, made)]
                /\ panicked' = IF made.panicked THEN "unwrap" ELSE panicked
    /\ UNCHANGED <<stack, demand, faulty, arena, diags, makes, returned, result, env>>

(***************************************************************************)
(* The libraries of the design.                                            *)
(***************************************************************************)
ArchRefs == [i \in 1..(MaxArchs + 1) |-> 10 + i]

\* The target of the architecture at position i of the library.
TargetName(kind, v, parts, i) ==
    [primary |-> PrimaryName(kind, v, 10 * i), parts |-> parts,
     span |-> Span(10 * i, 10 * i + 1 + Len(parts))]

ArchTargets(i) ==
    {TargetName("Ident", n, <<>>, i) : n \in {"e1", "e2", "p", "x"}}
        \cup {TargetName("Ident", "e1", <<Select(PrimaryName("Ident", "a", 10 * i + 1))>>, i),
              TargetName("String", "and", <<>>, i)}

\* ast::ArchBody, as far as the indexer reads it.
ArchBody(target, name, i) ==
    [target |-> target, name |-> Spanned(name, Span(10 * i + 5, 10 * i + 6))]

\* Every architecture is named rtl; one of entity e1 may also be named beh.
ArchBodies(i) ==
    {ArchBody(target, "rtl", i) : target \in ArchTargets(i)}
        \cup {ArchBody(TargetName("Ident", "e1", <<>>, i), "beh", i)}

\* The AST tables with n architectures.
RECURSIVE ArchAsts(_)
ArchAsts(n) ==
    IF n = 0 THEN {EmptyTable}
    ELSE {(ArchRefs[n] :> body) @@ t : body \in ArchBodies(n), t \in ArchAsts(n - 1)}

\* The definitions of library 1: e1 is entity 1; e2 is entity 2, alone,
\* before or after a package of the same name, or is not defined; p is a
\* package.  Entity 3 is declared under a name no architecture uses.
LibDefs ==
    {Entry(Ident("e1"), <<Decl("Entity", 1, 100)>>)
        @@ Entry(Ident("e2"), e2)
        @@ Entry(Ident("p"), <<Decl("Pkg", 8, 180)>>)
        @@ Entry(Ident("e3"), <<Decl("Entity", 3, 130)>>) :
        e2 \in {<<>>, <<Decl("Entity", 2, 120)>>,
                <<Decl("Entity", 2, 120), Decl("Pkg", 7, 170)>>,
                <<Decl("Pkg", 7, 170), Decl("Entity", 2, 120)>>}}

ArchEnv(n, asts, ds, gone) ==
    [scope_table |-> EmptyTable,
     def_table   |-> Restrict(1 :> ds, {1} \ gone.defs),
     ty_table    |-> EmptyTable,
     hir_table   |-> Restrict(1 :> [LibNew EXCEPT !.entities = <<1, 2, 3>>,
                                                   !.archs = SubSeq(ArchRefs, 1, n)],
                              {1} \ gone.hir),
     ast_table   |-> asts]

ArchEnvs ==
    UNION {{ArchEnv(n, asts, ds, gone) :
                asts \in ArchAsts(n), ds \in LibDefs,
                gone \in {[defs |-> {}, hir |-> {}], [defs |-> {1}, hir |-> {}],
                          [defs |-> {}, hir |-> {1}]}} : n \in 0..MaxArchs}
(***************************************************************************)
(* Part 5.  Lowering a library to HIR: hir(LibRef).                        *)
(***************************************************************************)
MaxUnits == 2

\* ast::DesignUnitData
UnitKinds ==
    {"EntityDecl", "CfgDecl", "PkgDecl", "PkgInst", "CtxDecl", "ArchBody", "PkgBody"}

\* A typed node reference.
Ref(kind, id) == [kind |-> kind, id |-> id]

\* NodeId::alloc: the next number of the session's counter.
alloc(e) == [id |-> e.next_id, env |-> [e EXCEPT !.next_id = @ + 1]]

\* AstTable::set through set_ast.
set_ast(e, id, ast) == [e EXCEPT !.ast_table = MapInsert(@, id, ast)]

\* The mutant of FieldOf: every handle is listed among the entities.
FieldOfEntities(kind) == [ref |-> "Entity", field |-> "entities"]

\* The handle type and the field of Lib for each kind of design unit.
FieldOf(kind) ==
    CASE kind = "EntityDecl" -> [ref |-> "Entity",  field |-> "entities"]
      [] kind = "CfgDecl"    -> [ref |-> "Cfg",     field |-> "cfgs"]
      [] kind = "PkgDecl"    -> [ref |-> "PkgDecl", field |-> "pkg_decls"]
      [] kind = "PkgInst"    -> [ref |-> "PkgInst", field |-> "pkg_insts"]
      [] kind = "CtxDecl"    -> [ref |-> "Ctx",     field |-> "ctxs"]
      [] kind = "ArchBody"   -> [ref |-> "Arch",    field |-> "archs"]
      [] kind = "PkgBody"    -> [ref |-> "PkgBody", field |-> "pkg_bodies"]

\* The AST stored for the payload of a design unit: package declarations
\* and instances lie in the scope of their context items, the others carry
\* their library and their context items.
PayloadAst(id, ctx_id, du) ==
    IF du.data.kind \in {"PkgDecl", "PkgInst"}
    THEN [scope |-> ctx_id, decl |-> du.data.decl]
    ELSE [lib |-> id, ctx_items |-> ctx_id, decl |-> du.data.decl]

\* The body of the loop over the design units of the library.
LowerUnit(id, st, du) ==
    LET a1     == alloc(st.env)
        ctx_id == Ref("CtxItems", a1.id)
        e1     == set_ast(a1.env, ctx_id, [scope |-> Ref("Lib", id), ctx |-> du.ctx])
        a2     == alloc(e1)
        subid  == Ref(FieldOf(du.data.kind).ref, a2.id)
        e2     == set_ast(a2.env, subid, PayloadAst(id, ctx_id, du))
    IN  [env |-> e2,
         lib |-> [st.lib EXCEPT ![FieldOf(du.data.kind).field] = Append(@, subid)]]

RECURSIVE LowerLoop(_, _, _, _)
LowerLoop(id, units, i, st) ==
    IF i > Len(units) THEN st
    ELSE LowerLoop(id, units, i + 1, LowerUnit(id, st, units[i]))

\* NodeMaker<LibRef, &hir::Lib>::make
lib_make(e, id) == LowerLoop(id, e.libs[id], 1, [env |-> e, lib |-> LibNew])

\* The accessor hir for a library: a stored Lib is returned as it is;
\* otherwise make runs and set_hir stores its Lib.
HirLib(id) ==
    /\ calls < MaxCalls
    /\ calls' = calls + 1
    /\ IF id \in DOMAIN sb.hir_table
       THEN /\ out' = [op |-> "hir", id |-> id, hit |-> TRUE,
                       res |-> Ok(sb.hir_table[id])]
            /\ UNCHANGED <<sb, env>>
       ELSE LET made == lib_make(env, id)
            IN  /\ out' = [op |-> "hir", id |-> id, hit |-> FALSE, res |-> Ok(made.lib)]
                /\ env' = made.env
                /\ sb' = [sb EXCEPT !.hir_table = MapInsert(@, id, made.lib)]
    /\ UNCHANGED <<stack, demand, faulty, arena, panicked, diags, makes, returned, result>>

(***************************************************************************)
(* The libraries added to the session.                                     *)
(***************************************************************************)
\* ast::DesignUnit number i of library id.
DesignUnit(id, i, kind) ==
    [ctx |-> [lib |-> id, unit |-> i], data |-> [kind |-> kind, decl |-> [lib |-> id, unit |-> i]]]

RECURSIVE UnitSeqs(_, _)
UnitSeqs(id, n) ==
    IF n = 0 THEN {<<>>}
    ELSE UnitSeqs(id, n - 1)
            \cup {Append(us, DesignUnit(id, n, k)) :
                    us \in {q \in UnitSeqs(id, n - 1) : Len(q) = n - 1}, k \in UnitKinds}

\* add_library for the libraries 1 and 2; the node counter stands where the
\* allocation of the library handles left it.
LowerEnvs ==
    {[libs |-> (1 :> us) @@ (2 :> vs), ast_table |-> EmptyTable, next_id |-> 3] :
        us \in UnitSeqs(1, MaxUnits),
        vs \in {<<>>, <<DesignUnit(2, 1, "EntityDecl")>>}}
(***************************************************************************)
(* Part 6.  The IR definition of an architecture: lldef(ArchRef).          *)
(***************************************************************************)
MaxItems == 2

MaxPorts == 2

\* hir::IntfSignalMode
IntfSignalModes == {"In", "Out", "Inout", "Buffer", "Linkage"}

\* The step of make that the session lets fail, if any.
Fails(e, kind, id) == Ref(kind, id) \in e.fails

\* typeck, codegen, ty and map_type, seen from make.
typeck(e, id) ==
    IF Fails(e, "typeck", id) THEN Err(<<DiagMake("typeck", id)>>) ELSE Ok(<<>>)

map_type(e, ty_id) ==
    IF Fails(e, "ty", ty_id) THEN Err(<<DiagMake("ty", ty_id)>>)
    ELSE Ok([llhd |-> ty_id])

\* The inputs of an IR entity: the ports of mode In, Inout or Linkage.
IsInput(mode) == mode \in {"In", "Inout", "Linkage"}

\* The mutant of IsOutput: an Inout port is no output.
IsOutputStrict(mode) == mode \in {"Out", "Buffer"}

\* The outputs of an IR entity: the ports of mode Out, Inout or Buffer.
IsOutput(mode) == mode \in {"Out", "Inout", "Buffer"}

\* The loop over the ports of the entity.
RECURSIVE PortLoop(_, _, _, _)
PortLoop(e, ports, i, st) ==
    IF i > Len(ports) \/ ~st.ok THEN st
    ELSE LET h == hir(e, ports[i])
         IN  IF ~h.ok THEN [st EXCEPT !.ok = FALSE, !.diags = h.diags]
             ELSE LET ty == map_type(e, h.value.ty)
                      arg == [ty |-> ty.value, name |-> h.value.name]
                  IN  IF ~ty.ok THEN [st EXCEPT !.ok = FALSE, !.diags = ty.diags]
                      ELSE PortLoop(e, ports, i + 1,
                              [st EXCEPT
                                  !.ins  = IF IsInput(h.value.mode)
                                           THEN Append(@, arg) ELSE @,
                                  !.outs = IF IsOutput(h.value.mode)
                                           THEN Append(@, arg) ELSE @])

\* llhd::Entity::new with the arguments named: no code in it yet.
EntityNew(name, ins, outs) == [name |-> name, ins |-> ins, outs |-> outs, code |-> <<>>]

NoEntity == EntityNew(<<>>, <<>>, <<>>)

\* make from the HIR of the architecture to the new entity.
lldef_header(e, id) ==
    LET arch == hir(e, id)
    IN  IF ~arch.ok THEN Err(arch.diags)
        ELSE LET entity == hir(e, arch.value.entity)
             IN  IF ~entity.ok THEN Err(entity.diags)
                 ELSE LET st == PortLoop(e, entity.value.ports, 1,
                                    [ok |-> TRUE, diags |-> <<>>,
                                     ins |-> <<>>, outs |-> <<>>])
                      IN  IF ~st.ok THEN Err(st.diags)
                          ELSE Ok(EntityNew(<<entity.value.name, "_", arch.value.name>>,
                                            st.ins, st.outs))

\* The lines written to the standard output: the two lines of an accessor
\* and the line of make.
TraceMake(kind, key) == [line |-> "make for", kind |-> kind, key |-> key, value |-> <<>>]

TraceFill(kind, key, node) ==
    [line |-> "for is", kind |-> kind, key |-> key, value |-> <<node>>]

EntityPorts(arch, ports) ==
    [line |-> "entity ports", kind |-> "", key |-> arch, value |-> ports]

\* if self.sess.opts.trace_scoreboard { println!(..) }
Traced(e, log, line) == IF e.trace_scoreboard THEN Append(log, line) ELSE log

\* println!("entity ports: {:?}", entity.ports), once make has the HIR of the
\* architecture and of its entity.
PrintPorts(e, log, id) ==
    LET arch == hir(e, id)
    IN  IF arch.ok /\ hir(e, arch.value.entity).ok
        THEN Append(log, EntityPorts(id, hir(e, arch.value.entity).value.ports))
        ELSE log

\* The activation of lldef that is in progress.
InLldef(pc) == out.op = "lldef" /\ out.pc = pc

Step(event) == Append(out.trace, event)

\* make has failed: `?` leaves make and the accessor at once.
LldefFailed(event, ds) ==
    /\ out' = [out EXCEPT !.pc = "done", !.trace = Step(event),
                          !.log = IF event.kind = "entity"
                                  THEN PrintPorts(env, @, out.id) ELSE @,
                          !.res = [ok |-> FALSE, node |-> None, diags |-> ds]]
    /\ UNCHANGED <<env, sb>>

\* The accessor lldef is entered: a stored value reference is returned as it
\* is; otherwise make starts.
Lldef(id) ==
    /\ out.op = "none" \/ InLldef("done")
    /\ calls < MaxCalls
    /\ calls' = calls + 1
    /\ IF id \in DOMAIN sb.lldef_table
       THEN out' = [op |-> "lldef", id |-> id, pc |-> "done", hit |-> TRUE,
                    trace |-> <<>>, entity |-> NoEntity, log |-> <<>>,
                    res |-> [ok |-> TRUE, node |-> sb.lldef_table[id], diags |-> <<>>]]
       ELSE out' = [op |-> "lldef", id |-> id, pc |-> "typeck", hit |-> FALSE,
                    trace |-> <<>>, entity |-> NoEntity,
                    log |-> Traced(env, <<>>, TraceMake("lldef", id)),
                    res |-> [ok |-> FALSE, node |-> None, diags |-> <<>>]]
    /\ UNCHANGED <<env, sb, stack, demand, faulty, arena, panicked, diags, makes,
                   returned, result>>

\* self.typeck(id)?
Typeck ==
    /\ InLldef("typeck")
    /\ LET r == typeck(env, out.id)
       IN  IF r.ok
           THEN /\ out' = [out EXCEPT !.pc = "header", !.trace = Step(Ref("typeck", out.id))]
                /\ UNCHANGED <<env, sb>>
           ELSE LldefFailed(Ref("typeck", out.id), r.diags)
    /\ UNCHANGED <<calls, stack, demand, faulty, arena, panicked, diags, makes,
                   returned, result>>

\* The HIR of the architecture, of its entity and of the ports, and the new
\* IR entity.
Header ==
    /\ InLldef("header")
    /\ LET r == lldef_header(env, out.id)
       IN  IF r.ok
           THEN /\ out' = [out EXCEPT !.pc = "decls", !.entity = r.value,
                                      !.trace = Step(Ref("entity", out.id)),
                                      !.log = PrintPorts(env, @, out.id)]
                /\ UNCHANGED <<env, sb>>
           ELSE LldefFailed(Ref("entity", out.id), r.diags)
    /\ UNCHANGED <<calls, stack, demand, faulty, arena, panicked, diags, makes,
                   returned, result>>

\* The declarations and statements codegen has not been called for yet.
Pending(kind) ==
    LET items == IF kind = "decls" THEN env.hir_table[out.id].decls
                 ELSE env.hir_table[out.id].stmts
    IN  SubSeq(items, Len(SelectSeq(out.trace, LAMBDA ev : ev.kind = kind)) + 1, Len(items))

\* The mutant of NextCodegen: the statements are left out.
NextCodegenNoStmts(kind) == IF Pending(kind) # <<>> THEN kind ELSE "add"

\* Where make goes on after the items of one kind.
NextCodegen(kind) ==
    IF Pending(kind) # <<>> THEN kind
    ELSE IF kind = "decls" THEN "stmts" ELSE "add"

\* self.codegen(id, &mut entity)? for the next declaration or statement.
Codegen(kind) ==
    /\ InLldef(kind)
    /\ Pending(kind) # <<>>
    /\ LET item == Pending(kind)[1]
       IN  IF Fails(env, "codegen", item.id)
           THEN LldefFailed(Ref(kind, item.id), <<DiagMake("codegen", item.id)>>)
           ELSE /\ out' = [out EXCEPT !.entity.code = Append(@, item),
                                      !.trace = Step(Ref(kind, item.id))]
                /\ UNCHANGED <<env, sb>>
    /\ UNCHANGED <<calls, stack, demand, faulty, arena, panicked, diags, makes,
                   returned, result>>

\* The end of a loop over the items of one kind.
CodegenDone(kind) ==
    /\ InLldef(kind)
    /\ Pending(kind) = <<>>
    /\ out' = [out EXCEPT !.pc = NextCodegen(kind)]
    /\ UNCHANGED <<env, sb, calls, stack, demand, faulty, arena, panicked, diags,
                   makes, returned, result>>

\* The mutant of add_entity: the entity comes into the module without the
\* code generated for it.
add_entity_empty(llmod, entity) == Append(llmod, [entity EXCEPT !.code = <<>>])

\* llhd::Module::add_entity
add_entity(llmod, entity) == Append(llmod, entity)

\* The entity is added to the module.
AddEntity ==
    /\ InLldef("add")
    /\ env' = [env EXCEPT !.llmod = add_entity(@, out.entity)]
    /\ out' = [out EXCEPT !.pc = "fill", !.trace = Step(Ref("add", out.id)),
                          !.res = [ok |-> TRUE, node |-> Len(env.llmod) + 1,
                                   diags |-> <<>>]]
    /\ UNCHANGED <<sb, calls, stack, demand, faulty, arena, panicked, diags, makes,
                   returned, result>>

\* make has returned a value reference: the accessor writes its second line.
LldefFill ==
    /\ InLldef("fill")
    /\ out' = [out EXCEPT !.pc = "store",
                          !.log = Traced(env, @, TraceFill("lldef", out.id, out.res.node))]
    /\ UNCHANGED <<env, sb, calls, stack, demand, faulty, arena, panicked, diags, makes,
                   returned, result>>

\* The accessor stores the value reference and returns it.
LldefStore ==
    /\ InLldef("store")
    /\ sb' = [sb EXCEPT !.lldef_table = MapInsert(@, out.id, out.res.node)]
    /\ out' = [out EXCEPT !.pc = "done", !.trace = Step(Ref("store", out.id))]
    /\ UNCHANGED <<env, calls, stack, demand, faulty, arena, panicked, diags, makes,
                   returned, result>>

(***************************************************************************)
(* The architectures of the design.                                        *)
(***************************************************************************)
\* hir::IntfSignal number i of the entity.
Port(i, mode) == [name |-> <<"p", i>>, mode |-> mode, ty |-> 60 + i]

RECURSIVE PortSeqs(_)
PortSeqs(n) ==
    IF n = 0 THEN {<<>>}
    ELSE PortSeqs(n - 1)
            \cup {Append(ps, Port(n, mode)) :
                    ps \in {q \in PortSeqs(n - 1) : Len(q) = n - 1},
                    mode \in IntfSignalModes}

ItemRefs(kind, n) == [i \in 1..n |-> Ref(kind, i)]

\* Architecture 11 of entity 1 with nd declarations, ns statements and the
\* ports of the entity; the steps of lost fail.
LldefEnv(nd, ns, ports, lost, trace_scoreboard) ==
    [hir_table |->
         Restrict((11 :> [entity |-> 1, name |-> "rtl",
                          decls |-> ItemRefs("decls", nd),
                          stmts |-> ItemRefs("stmts", ns)])
                  @@ (1 :> [name |-> "e", ports |-> [i \in 1..Len(ports) |-> 40 + i]])
                  @@ [p \in {40 + i : i \in 1..Len(ports)} |-> ports[p - 40]],
                  ({1, 11} \cup {40 + i : i \in 1..Len(ports)})
                      \ {r.id : r \in {x \in lost : x.kind = "hir"}}),
     fails |-> lost,
     llmod |-> <<>>,
     trace_scoreboard |-> trace_scoreboard]

\* Sessions without a failure for every list of ports, and sessions with
\* one failing step for two ports.
LldefEnvs ==
    {LldefEnv(nd, ns, ports, {}, t) :
        nd \in 0..MaxItems, ns \in 0..MaxItems, ports \in PortSeqs(MaxPorts),
        t \in BOOLEAN}
    \cup
    {LldefEnv(nd, ns, <<Port(1, "In"), Port(2, "Out")>>, {lost}, t) :
        nd \in 0..MaxItems, ns \in 0..MaxItems, t \in BOOLEAN,
        lost \in {Ref("typeck", 11), Ref("hir", 11), Ref("hir", 1), Ref("hir", 42),
                  Ref("ty", 61)}
                    \cup {Ref("codegen", i) : i \in 1..MaxItems}}
(***************************************************************************)
(* Part 7.  The borrows of the scoreboard's RefCells.                      *)
(***************************************************************************)
\* The memo tables behind the accessors.
MemoCells == {TableOf(kind) : kind \in Kinds}

\* The RefCells of the scoreboard that the accessors and makes borrow.
Cells == MemoCells \cup {"libs", "ast_table", "llmod"}

NoBorrows == [c \in Cells |-> [shared |-> 0, mut |-> FALSE]]

\* RefCell::borrow
borrow(cells, c) ==
    IF cells[c].mut THEN [panic |-> "already mutably borrowed", cells |-> cells]
    ELSE [panic |-> "none", cells |-> [cells EXCEPT ![c].shared = @ + 1]]

\* RefCell::borrow_mut
borrow_mut(cells, c) ==
    IF cells[c].mut \/ cells[c].shared > 0
    THEN [panic |-> "already borrowed", cells |-> cells]
    ELSE [panic |-> "none", cells |-> [cells EXCEPT ![c].mut = TRUE]]

\* The drop of a Ref.
drop_ref(cells, c) == [cells EXCEPT ![c].shared = @ - 1]

\* The tables an accessor looks its key up in, one `if let` after the other.
Lookups(kind) ==
    IF kind = "lldecl" THEN <<"lldecl_table", "lldef_table">> ELSE <<TableOf(kind)>>

\* The mutant of AfterLookup: the Ref of the lookup lives on.
AfterLookupHeld(cells, c) == cells

\* The end of `if let Some(node) = table.borrow().get(&id) { .. }`: the Ref
\* is a temporary of the statement and is dropped with it.
AfterLookup(cells, c) == drop_ref(cells, c)

\* table.borrow() of a lookup.
BorrowLookup ==
    /\ Running
    /\ Top.pc = "lookup"
    /\ LET b == borrow(env.cells, Lookups(Top.kind)[Top.req])
       IN  /\ panicked' = b.panic
           /\ env' = [env EXCEPT !.cells = b.cells]
           /\ stack' = IF b.panic = "none"
                       THEN [stack EXCEPT ![Len(stack)].pc = "test"] ELSE stack
    /\ UNCHANGED <<sb, demand, faulty, arena, calls, diags, makes, returned, result, out>>

\* get(&id) under the Ref: a hit returns the node, a miss goes on to the
\* next lookup or to make.
EndLookup ==
    /\ Running
    /\ Top.pc = "test"
    /\ LET c == Lookups(Top.kind)[Top.req]
       IN  /\ env' = [env EXCEPT !.cells = AfterLookup(@, c)]
           /\ stack' = IF Top.key \in DOMAIN sb[c] THEN ReturnOk
                       ELSE IF Top.req < Len(Lookups(Top.kind))
                       THEN [stack EXCEPT ![Len(stack)].pc = "lookup",
                                          ![Len(stack)].req = Top.req + 1]
                       ELSE [stack EXCEPT ![Len(stack)].pc = "make",
                                          ![Len(stack)].req = 1]
    /\ UNCHANGED <<sb, demand, faulty, arena, panicked, calls, diags, makes, returned,
                   result, out>>

\* The make of a library's HIR, which requests nothing.
InLibMake(pc) ==
    /\ Running
    /\ Top.pc = pc
    /\ Top.kind = "hir"
    /\ demand[TopProduct] = <<>>

\* `for du in &self.sb.libs.borrow()[&id]`: the Ref lives as long as the loop.
LibsBorrow ==
    /\ InLibMake("make")
    /\ LET b == borrow(env.cells, "libs")
       IN  /\ panicked' = b.panic
           /\ env' = [env EXCEPT !.cells = b.cells]
           /\ stack' = IF b.panic = "none"
                       THEN [stack EXCEPT ![Len(stack)].pc = "loop"] ELSE stack
    /\ UNCHANGED <<sb, demand, faulty, arena, calls, diags, makes, returned, result, out>>

\* set_ast in the loop: ast_table.borrow_mut() for the time of one statement.
SetAst ==
    /\ InLibMake("loop")
    /\ Top.req <= 2 * MaxUnits
    /\ LET b == borrow_mut(env.cells, "ast_table")
       IN  /\ panicked' = b.panic
           /\ stack' = IF b.panic = "none"
                       THEN [stack EXCEPT ![Len(stack)].req = Top.req + 1] ELSE stack
    /\ UNCHANGED <<sb, env, demand, faulty, arena, calls, diags, makes, returned,
                   result, out>>

\* The loop ends after the two set_ast of its last design unit.
LibsRelease ==
    /\ InLibMake("loop")
    /\ Top.req % 2 = 1
    /\ env' = [env EXCEPT !.cells = drop_ref(@, "libs")]
    /\ stack' = [stack EXCEPT ![Len(stack)].pc = "insert"]
    /\ UNCHANGED <<sb, demand, faulty, arena, panicked, calls, diags, makes, returned,
                   result, out>>

\* make returns Ok(node) after its last request; the make of an IR
\* definition has added its entity to the module with llmod.borrow_mut().
MakeOk ==
    /\ Running
    /\ Top.pc = "make"
    /\ Top.kind # "lldecl"
    /\ ~InLibMake("make")
    /\ Top.req > Len(demand[TopProduct])
    /\ LET b == IF Top.kind = "lldef" THEN borrow_mut(env.cells, "llmod")
                ELSE [panic |-> "none", cells |-> env.cells]
       IN  /\ panicked' = b.panic
           /\ stack' = IF b.panic = "none"
                       THEN [stack EXCEPT ![Len(stack)].pc = "insert"] ELSE stack
    /\ UNCHANGED <<sb, env, demand, faulty, arena, calls, diags, makes, returned,
                   result, out>>

\* table.borrow_mut().insert(id, node), or set for the HIR, and Ok(node).
StoreNode ==
    /\ Running
    /\ Top.pc = "insert"
    /\ LET b    == borrow_mut(env.cells, TableOf(Top.kind))
           node == arena + 1
           ins  == Insert(sb, Top.kind, Top.key, node)
       IN  IF b.panic # "none"
           THEN panicked' = b.panic /\ UNCHANGED <<sb, arena, stack>>
           ELSE /\ panicked' = ins.panic
                /\ sb' = ins.board
                /\ arena' = node
                /\ stack' = IF ins.panic = "none" THEN ReturnOk ELSE stack
    /\ UNCHANGED <<env, demand, faulty, calls, diags, makes, returned, result, out>>
(***************************************************************************)
(* Part 8.  The implicit default value of a type.                          *)
(***************************************************************************)
MaxAlias == 2

\* Ty::Null and Ty::UnboundedInt
NullTy == [kind |-> "Null"]

UnboundedIntTy == [kind |-> "UnboundedInt"]

\* Const::Null and ConstInt::new(ty, value)
ConstNull == [kind |-> "Null"]

ConstIntNew(int_ty, value) == [kind |-> "Int", ty |-> int_ty, value |-> value]

\* The accessor ty of part 1, seen from a caller.
TyOf(e, id) ==
    IF id \in DOMAIN e.ty_table THEN Ok(e.ty_table[id])
    ELSE Err(<<DiagMake("ty", id)>>)

\* What default_value_for_type leaves behind: a constant, the failure of a
\* request, or a panic.
DefaultOk(konst) == [ok |-> TRUE, value |-> <<konst>>, diags |-> <<>>, panicked |-> FALSE]

DefaultErr(ds) == [ok |-> FALSE, value |-> <<>>, diags |-> ds, panicked |-> FALSE]

DefaultPanic == [ok |-> FALSE, value |-> <<>>, diags |-> <<>>, panicked |-> TRUE]

\* The mutant of default_value_for_type: the default of an integer type is
\* its right bound.
RECURSIVE default_value_right(_, _)
default_value_right(e, t) ==
    CASE t.kind = "Named" ->
            LET inner == TyOf(e, t.id)
            IN  IF ~inner.ok THEN DefaultErr(inner.diags)
                ELSE default_value_right(e, inner.value)
      [] t.kind = "Null" -> DefaultOk(ConstNull)
      [] t.kind = "Enum" -> DefaultOk(ConstNull)
      [] t.kind = "Int" -> DefaultOk(ConstIntNew(t, t.right))
      [] t.kind = "UnboundedInt" -> DefaultPanic

\* ScoreContext::default_value_for_type
RECURSIVE default_value_for_type(_, _)
default_value_for_type(e, t) ==
    CASE t.kind = "Named" ->
            LET inner == TyOf(e, t.id)
            IN  IF ~inner.ok THEN DefaultErr(inner.diags)
                ELSE default_value_for_type(e, inner.value)
      [] t.kind = "Null" -> DefaultOk(ConstNull)
      [] t.kind = "Enum" -> DefaultOk(ConstNull)
      [] t.kind = "Int" -> DefaultOk(ConstIntNew(t, t.left))
      [] t.kind = "UnboundedInt" -> DefaultPanic

\* A call of default_value_for_type: a constant returned has been allocated
\* in the arena of constants.
DefaultValueForType(t) ==
    /\ out = NoCall
    /\ panicked = "none"
    /\ LET r == default_value_for_type(env, t)
       IN  /\ out' = [op |-> "default_value_for_type", ty |-> t, res |-> r]
           /\ arena' = IF r.ok THEN arena + 1 ELSE arena
           /\ panicked' = IF r.panicked THEN "unbounded integer has no default value"
                          ELSE panicked
    /\ UNCHANGED <<env, sb, stack, demand, faulty, calls, diags, makes, returned, result>>

(***************************************************************************)
(* The types of the design.                                                *)
(***************************************************************************)
\* The types that are no names of other types.  The enumeration has the
\* literals of its declaration 70, the first of them EnumRef(70, 0).
PlainTys ==
    {NullTy, UnboundedIntTy, EnumTy(70), IntTy("to", 0, 3), IntTy("downto", 7, 2)}

\* The type declared under the handle n: a plain type or a name for the type
\* of a handle declared before it.
TysAt(n) == PlainTys \cup {Named(<<"t", k>>, k) : k \in 1..(n - 1)}

\* The type tables with the handles 1..n.
RECURSIVE TyTables(_)
TyTables(n) ==
    IF n = 0 THEN {EmptyTable}
    ELSE {(n :> t) @@ tbl : t \in TysAt(n), tbl \in TyTables(n - 1)}

\* Sessions whose type of one handle may be unobtainable.
DefaultEnvs ==
    {[scope_table |-> EmptyTable, def_table |-> EmptyTable,
      ty_table |-> Restrict(tbl, DOMAIN tbl \ gone)] :
        tbl \in TyTables(MaxAlias + 1), gone \in {{}, {1}}}

\* The types default_value_for_type is asked for.
DefaultTys == TysAt(MaxAlias + 2)
(***************************************************************************)
(* Specifications.                                                         *)
(***************************************************************************)
\* The scoreboard of part 1 under the calls of a driver.
Init == InitScoreBoard /\ env = NoEnv /\ out = NoCall

Next ==
    \/ \E kind \in Kinds, key \in Keys : Call(kind, key)
    \/ Hit
    \/ Miss
    \/ Unimplemented
    \/ Request
    \/ MakeErr
    \/ Fill

Spec == Init /\ [][Next]_vars

\* The scoreboard at rest while names are resolved.
IdleScoreBoard ==
    /\ sb = NewScoreBoard
    /\ stack = <<>>
    /\ demand = CodeDemand
    /\ faulty = {}
    /\ arena = 0
    /\ panicked = "none"
    /\ calls = 0
    /\ diags = [p \in Products |-> 0]
    /\ makes = [p \in Products |-> 0]
    /\ returned = [p \in Products |-> {}]
    /\ result = NoResult

\* resolve_name in the sessions of ResolveEnvs.
InitResolve == IdleScoreBoard /\ env \in ResolveEnvs /\ out = NoCall

NextResolve ==
    \E n \in {"a", "b"}, scope_id \in Scopes, only_defs \in BOOLEAN :
        ResolveName(Spanned(Ident(n), Span(1, 2)), scope_id, only_defs)

SpecResolve == InitResolve /\ [][NextResolve]_vars

\* resolve_compound_name in the sessions of CompoundEnvs.
InitCompound == IdleScoreBoard /\ env \in CompoundEnvs /\ out = NoCall

NextCompound ==
    \E name \in CompoundNames, scope_id \in {1, 3}, only_defs \in BOOLEAN :
        ResolveCompoundName(name, scope_id, only_defs)

SpecCompound == InitCompound /\ [][NextCompound]_vars

\* Primary names and operator symbols in a session with the built-ins.
InitBuiltin == IdleScoreBoard /\ env = NoEnv /\ out = NoCall

NextBuiltin ==
    \/ RegisterBuiltins
    \/ \E primary \in BuiltinPrimaries : ResolvableFromPrimaryName(primary)
    \/ \E op \in Operators : DisplayOperator(op)
    \/ \E name \in BuiltinNames, scope_id \in Scopes, only_defs \in BOOLEAN :
           ResolveCompoundName(name, scope_id, only_defs)

SpecBuiltin == InitBuiltin /\ [][NextBuiltin]_vars


\* The architecture indexer over the libraries of ArchEnvs.
InitArchs == IdleScoreBoard /\ env \in ArchEnvs /\ out = NoCall

NextArchs == Archs(1)

SpecArchs == InitArchs /\ [][NextArchs]_vars

\* The lowering of the libraries of LowerEnvs.
InitLower == IdleScoreBoard /\ env \in LowerEnvs /\ out = NoCall

NextLower == \E id \in {1, 2} : HirLib(id)

SpecLower == InitLower /\ [][NextLower]_vars

\* The IR definition of the architecture of LldefEnvs, step by step.
InitLldef == IdleScoreBoard /\ env \in LldefEnvs /\ out = NoCall

NextLldef ==
    \/ Lldef(11)
    \/ Typeck
    \/ Header
    \/ \E kind \in {"decls", "stmts"} : Codegen(kind)
    \/ \E kind \in {"decls", "stmts"} : CodegenDone(kind)
    \/ AddEntity
    \/ LldefFill
    \/ LldefStore

SpecLldef == InitLldef /\ [][NextLldef]_vars

\* The accessors and makes of part 1 with the borrows of their tables.
InitBorrow == InitScoreBoard /\ env = [cells |-> NoBorrows] /\ out = NoCall

NextBorrow ==
    \/ \E kind \in Kinds : Call(kind, 1)
    \/ BorrowLookup
    \/ EndLookup
    \/ Request
    \/ Unimplemented
    \/ LibsBorrow
    \/ SetAst
    \/ LibsRelease
    \/ MakeOk
    \/ MakeErr
    \/ StoreNode

SpecBorrow == InitBorrow /\ [][NextBorrow]_vars

\* default_value_for_type over the type tables of DefaultEnvs.
InitDefault == IdleScoreBoard /\ env \in DefaultEnvs /\ out = NoCall

NextDefault == \E t \in DefaultTys : DefaultValueForType(t)

SpecDefault == InitDefault /\ [][NextDefault]_vars
(***************************************************************************)
(* Claims about the scoreboard.                                            *)
(***************************************************************************)

\* C1: once an accessor has returned Ok(v) for a key, every later return of
\* that accessor for the key is the same v, and make is not invoked for the
\* key again.
C1_Memoization ==
    [][\A p \in Products :
          returned[p] # {} =>
              /\ returned'[p] = returned[p]
              /\ makes'[p] = makes[p]]_vars

\* A second call of the driver was answered from the table: two calls, one
\* allocation, no failure, and the second call returned the node.
C1_Witness ==
    /\ calls = 2 /\ stack = <<>> /\ panicked = "none" /\ faulty = {}
    /\ arena = 1
    /\ result.set /\ result.ok /\ result.node = 1
    /\ result.product.kind = "hir"
    /\ makes[result.product] = 1

\* C2: a failed make leaves no entry in the table of its kind, the accessor
\* returns the error, and every later call for the key runs make again and
\* emits its diagnostic again.
C2_FailuresNotCached ==
    /\ \A p \in faulty :
          /\ p.key \notin DOMAIN sb[TableOf(p.kind)]
          /\ (stack = <<>> => diags[p] = makes[p])
    /\ (result.set /\ ~result.ok) =>
          /\ stack = <<>>
          /\ result.product.key \notin DOMAIN sb[TableOf(result.product.kind)]

\* The same key failed twice: make ran twice and emitted twice.
C2_Witness ==
    \E p \in faulty :
        /\ stack = <<>> /\ makes[p] = 2 /\ diags[p] = 2
        /\ result = ErrResult(p)

RECURSIVE Walk(_, _, _)
Walk(e, scope_id, only_defs) ==
    IF only_defs \/ scope_id \notin DOMAIN e.scope_table THEN {scope_id}
    ELSE IF e.scope_table[scope_id].parent = None THEN {scope_id}
    ELSE {scope_id} \cup Walk(e, e.scope_table[scope_id].parent, only_defs)

\* A scope has an entry for the name: among its own definitions with
\* only_defs, else among those of a holder or among its explicit ones.
Contributes(e, name, s, only_defs) ==
    IF only_defs
    THEN s \in DOMAIN e.def_table /\ name.value \in DOMAIN e.def_table[s]
    ELSE /\ s \in DOMAIN e.scope_table
         /\ \/ name.value \in DOMAIN e.scope_table[s].explicit_defs
            \/ \E i \in 1..Len(e.scope_table[s].defs) :
                  LET h == e.scope_table[s].defs[i]
                  IN  h \in DOMAIN e.def_table /\ name.value \in DOMAIN e.def_table[h]

\* Everything resolve_name asks the scoreboard for at a scope is obtained.
Obtained(e, s, only_defs) ==
    IF only_defs THEN s \in DOMAIN e.def_table
    ELSE /\ s \in DOMAIN e.scope_table
         /\ \A i \in 1..Len(e.scope_table[s].defs) :
               e.scope_table[s].defs[i] \in DOMAIN e.def_table

\* The call failed with the one diagnostic "`N` is not known".
UnknownName(call) ==
    /\ ~call.res.ok
    /\ Len(call.res.diags) = 1
    /\ call.res.diags[1].msg = "is not known"
    /\ call.res.diags[1].about = call.name.value
    /\ call.res.diags[1].spans = <<call.name.span>>

\* C5 as stated: resolve_name fails with the one diagnostic "`N` is not
\* known" if and only if no scope on the walk from S has an entry for N.
C5_UnknownNameAsStated ==
    out.op = "resolve_name" =>
        (UnknownName(out) <=>
            \A s \in Walk(env, out.scope_id, out.only_defs) :
                ~Contributes(env, out.name, s, out.only_defs))

\* C5, amended: resolve_name fails with the one diagnostic "`N` is not
\* known" if and only if the scoreboard answers for every scope on the walk
\* from S and none of them has an entry for N.
C5_UnknownName ==
    out.op = "resolve_name" =>
        (UnknownName(out) <=>
            \A s \in Walk(env, out.scope_id, out.only_defs) :
                /\ Obtained(env, s, out.only_defs)
                /\ ~Contributes(env, out.name, s, out.only_defs))

\* The name a was looked for in scope 3, then in 2, then in 1, and is
\* unknown.
C5_Witness ==
    /\ out.op = "resolve_name" /\ ~out.only_defs /\ out.scope_id = 3
    /\ out.name.value = Ident("a")
    /\ Walk(env, 3, FALSE) = {1, 2, 3}
    /\ \A s \in Scopes : Obtained(env, s, FALSE)
    /\ UnknownName(out)

C7_PrimaryNames ==
    /\ Cardinality(DOMAIN TBL) = 34
    /\ out.op = "resolvable_from_primary_name" =>
          LET p == out.primary
              r == out.res
          IN  /\ p.kind = "Ident" =>
                    r.ok /\ r.diags = <<>> /\ r.value = Spanned(Ident(p.v), p.span)
              /\ p.kind = "Char" =>
                    r.ok /\ r.diags = <<>> /\ r.value = Spanned(Bit(p.v), p.span)
              /\ p.kind = "String" =>
                    /\ r.ok <=> p.v \in DOMAIN TBL
                    /\ r.ok => /\ r.diags = <<>>
                               /\ r.value.value.kind = "Operator"
                               /\ r.value.span = p.span
                    /\ ~r.ok => /\ r.value = <<>>
                                /\ Len(r.diags) = 1
                                /\ r.diags[1].msg = "is not a valid operator symbol"
                                /\ r.diags[1].about.v = p.v
                                /\ r.diags[1].spans = <<p.span>>

\* The string "=>" was refused.
C7_Witness ==
    /\ out.op = "resolvable_from_primary_name"
    /\ out.primary.kind = "String" /\ out.primary.v = "=>"
    /\ ~out.res.ok /\ Len(out.res.diags) = 1

\* The operator a predefined implementation is registered under.
RegisteredUnder(id) ==
    LET ops == {BuiltinUnaryOps[i] : i \in 1..Len(BuiltinUnaryOps)}
                  \cup {BuiltinBinaryOps[i] : i \in 1..Len(BuiltinBinaryOps)}
    IN  {b.op : b \in {b \in ops : b.id = id}}

\* C8: each of the 34 operator symbols, mapped by primary-name resolution
\* and resolved in the root scope, yields a nonempty list of BuiltinOp
\* definitions, all registered under the operator the symbol maps to; "<="
\* yields exactly one, under Rel(Leq).
C8_OperatorsResolvable ==
    (/\ out.op = "resolve_compound_name"
     /\ ROOT_SCOPE_REF \in DOMAIN env.scope_table
     /\ out.scope_id = ROOT_SCOPE_REF
     /\ out.name.primary.kind = "String" /\ out.name.primary.v \in DOMAIN TBL
     /\ out.name.parts = <<>>) =>
        LET op == TBL[out.name.primary.v]
        IN  /\ out.res.ok
            /\ out.res.value.name = Operator(op)
            /\ Len(out.res.value.defs) >= 1
            /\ \A i \in 1..Len(out.res.value.defs) :
                  /\ out.res.value.defs[i].value.kind = "BuiltinOp"
                  /\ RegisteredUnder(out.res.value.defs[i].value.id) = {op}
            /\ out.name.primary.v = "<=" =>
                  Len(out.res.value.defs) = 1 /\ op = "Rel(Leq)"

\* "<=" was resolved in the root scope.
C8_Witness ==
    /\ out.op = "resolve_compound_name"
    /\ ROOT_SCOPE_REF \in DOMAIN env.scope_table
    /\ out.scope_id = ROOT_SCOPE_REF /\ ~out.only_defs
    /\ out.name.primary.kind = "String" /\ out.name.primary.v = "<="
    /\ out.name.parts = <<>>
    /\ out.res.ok /\ Len(out.res.value.defs) = 1

\* The name up to its k-th part.
Prefix(name, k) == CompoundName(name.primary, SubSeq(name.parts, 1, k))

\* The first i parts of the name are selectors.
SelectorsUpTo(name, i) ==
    i <= Len(name.parts) /\ \A j \in 1..i : name.parts[j].kind = "Select"

\* What the call resolved before it came to the i-th part of its name.
Before(call, i) ==
    resolve_compound_name(env, Prefix(call.name, i - 1), call.scope_id, call.only_defs)

\* C9: a selector is applied only to a list of exactly one definition; on a
\* list of several the call fails with the one diagnostic "is ambiguous"
\* that carries the span of every candidate, and with no diagnostic of the
\* selectability check or of the resolution of the selector.
C9_AmbiguousSelection ==
    out.op = "resolve_compound_name" =>
        \A i \in 1..Len(out.name.parts) :
            SelectorsUpTo(out.name, i) =>
                LET pre == Before(out, i)
                IN  /\ out.res.ok => pre.ok /\ Len(pre.value.defs) = 1
                    /\ (pre.ok /\ Len(pre.value.defs) > 1) =>
                          /\ ~out.res.ok
                          /\ Len(out.res.diags) = 1
                          /\ out.res.diags[1].msg = "is ambiguous"
                          /\ \A j \in 1..Len(pre.value.defs) :
                                \E k \in 1..Len(out.res.diags[1].spans) :
                                    out.res.diags[1].spans[k] = pre.value.defs[j].span

\* A selector was applied to a name with two definitions, the first of them
\* an entity.
C9_Witness ==
    /\ out.op = "resolve_compound_name"
    /\ SelectorsUpTo(out.name, 1)
    /\ Before(out, 1).ok
    /\ Len(Before(out, 1).value.defs) = 2
    /\ Before(out, 1).value.defs[1].value.kind = "Entity"
    /\ ~out.res.ok
    /\ out.res.diags[1].msg = "is ambiguous"

\* C10: a selector applied to a single definition that is no library,
\* package, package instance or built-in package fails with the one
\* diagnostic "cannot select into <def>"; applied to one of these four it
\* emits no such diagnostic.
C10_NonSelectable ==
    out.op = "resolve_compound_name" =>
        \A i \in 1..Len(out.name.parts) :
            SelectorsUpTo(out.name, i) =>
                LET pre == Before(out, i)
                    pn  == out.name.parts[i].pn
                IN  (pre.ok /\ Len(pre.value.defs) = 1) =>
                        LET d == pre.value.defs[1].value
                        IN  IF d.kind \in {"Lib", "Pkg", "PkgInst", "BuiltinPkg"}
                            THEN \A k \in 1..Len(out.res.diags) :
                                    ~(/\ out.res.diags[k].msg = "cannot select into"
                                      /\ out.res.diags[k].spans = <<pn.span>>)
                            ELSE /\ ~out.res.ok
                                 /\ Len(out.res.diags) = 1
                                 /\ out.res.diags[1].msg = "cannot select into"
                                 /\ out.res.diags[1].about = d
                                 /\ out.res.diags[1].spans = <<pn.span>>

\* A selector was applied to an enumeration literal.
C10_Witness ==
    /\ out.op = "resolve_compound_name"
    /\ SelectorsUpTo(out.name, 1)
    /\ Before(out, 1).ok
    /\ Len(Before(out, 1).value.defs) = 1
    /\ Before(out, 1).value.defs[1].value.kind = "Enum"
    /\ ~out.res.ok
    /\ out.res.diags[1].msg = "cannot select into"


(***************************************************************************)
(* The architecture indexer.                                               *)
(***************************************************************************)
Elems(s) == {s[i] : i \in 1..Len(s)}

Occurrences(s, x) == Cardinality({i \in 1..Len(s) : s[i] = x})

\* sub lists some elements of full, in the order they have in full.
InOrderOf(sub, full) ==
    /\ Elems(sub) \subseteq Elems(full)
    /\ \A i, j \in 1..Len(sub) :
          i < j => \E p, q \in 1..Len(full) :
                      p < q /\ full[p] = sub[i] /\ full[q] = sub[j]

\* The library and the definitions the last call of archs worked on.
IndexedLib == env.hir_table[out.id]

IndexedDefs == env.def_table[out.id]

\* make ran in the last call of archs and obtained the library and its
\* definitions.
Indexed ==
    /\ out.op = "archs"
    /\ ~out.hit
    /\ out.id \in DOMAIN env.hir_table
    /\ out.id \in DOMAIN env.def_table

SimpleTarget(a) ==
    LET target == env.ast_table[a].target
    IN  target.parts = <<>> /\ target.primary.kind = "Ident"

TargetDefs(a) == DefsGet(IndexedDefs, Ident(env.ast_table[a].target.primary.v))

\* The architecture names an entity: its target is a simple identifier whose
\* last definition is an entity.
TargetsEntity(a) ==
    /\ SimpleTarget(a)
    /\ TargetDefs(a) # <<>>
    /\ TargetDefs(a)[Len(TargetDefs(a))].value.kind = "Entity"

TargetedEntity(a) == TargetDefs(a)[Len(TargetDefs(a))].value.id

\* C11: when archs(lib) succeeds, by_entity has a key for every entity of the
\* library's HIR, every architecture of the library occurs exactly once in
\* the ordered list of the entity it targets and in no other, every ordered
\* list keeps the order of the library's architecture list, and
\* by_arch[a] = e exactly when a is in by_entity[e].ordered.
C11_TableConsistent ==
    (out.op = "archs" /\ out.res.ok) =>
        LET t   == out.res.value
            lib == IndexedLib
        IN  /\ DOMAIN t.by_entity = Elems(lib.entities)
            /\ \A e \in Elems(lib.entities) :
                  /\ InOrderOf(t.by_entity[e].ordered, lib.archs)
                  /\ (\A a \in Elems(lib.archs) : ~(TargetsEntity(a) /\ TargetedEntity(a) = e))
                        => t.by_entity[e].ordered = <<>>
                  /\ \A a \in Elems(lib.archs) :
                        Occurrences(t.by_entity[e].ordered, a) =
                            IF TargetsEntity(a) /\ TargetedEntity(a) = e THEN 1 ELSE 0
            /\ \A a \in Elems(lib.archs), e \in Elems(lib.entities) :
                  (a \in DOMAIN t.by_arch /\ t.by_arch[a] = e)
                      <=> a \in Elems(t.by_entity[e].ordered)
            /\ DOMAIN t.by_arch \subseteq Elems(lib.archs)

\* Two architectures of one entity were indexed and another entity has none.
C11_Witness ==
    /\ out.op = "archs"
    /\ out.res.ok
    /\ \E e \in DOMAIN out.res.value.by_entity :
          Len(out.res.value.by_entity[e].ordered) = 2
    /\ \E e \in DOMAIN out.res.value.by_entity :
          out.res.value.by_entity[e].ordered = <<>>

\* The architectures of the library that name no entity, in source order.
BadArchs == SelectSeq(IndexedLib.archs, LAMBDA a : ~TargetsEntity(a))

ExpectedMsg(a) ==
    IF ~SimpleTarget(a) THEN "is not a valid entity name"
    ELSE IF TargetDefs(a) = <<>> THEN "Unknown entity"
    ELSE "is not an entity"

\* C12: the indexer examines every architecture and emits one diagnostic per
\* architecture whose target is not a simple identifier, is unknown or is not
\* an entity; with at least one diagnostic it returns failure and nothing is
\* stored in arch_table; the table is returned only when there was none.
C12_AllOrNothing ==
    out.op = "archs" =>
        /\ Indexed =>
              /\ Len(out.res.diags) = Len(BadArchs)
              /\ \A i \in 1..Len(BadArchs) :
                    /\ out.res.diags[i].msg = ExpectedMsg(BadArchs[i])
                    /\ out.res.diags[i].spans[1] = env.ast_table[BadArchs[i]].target.span
              /\ out.res.ok <=> BadArchs = <<>>
        /\ out.res.diags # <<>> => ~out.res.ok
        /\ out.res.ok => out.res.diags = <<>>
        /\ IF out.res.ok
           THEN out.id \in DOMAIN sb.arch_table /\ sb.arch_table[out.id] = out.res.value
           ELSE out.id \notin DOMAIN sb.arch_table

\* Both architectures of a library failed and each has its diagnostic.
C12_Witness ==
    /\ Indexed
    /\ Len(IndexedLib.archs) = 2
    /\ Len(out.res.diags) = 2
    /\ ~out.res.ok
    /\ out.id \notin DOMAIN sb.arch_table

\* C13: when the defs hold several definitions for an architecture's target
\* identifier, the last one decides: the architecture is bound to it if it
\* is an entity, otherwise "is not an entity" is emitted with the span of the
\* reference and the span of that last definition, whatever the earlier
\* definitions are.
C13_LastDefinitionDecides ==
    Indexed =>
        \A a \in Elems(IndexedLib.archs) :
            (SimpleTarget(a) /\ Len(TargetDefs(a)) >= 2) =>
                LET target == env.ast_table[a].target
                    last   == TargetDefs(a)[Len(TargetDefs(a))]
                    told   == {i \in 1..Len(out.res.diags) :
                                  /\ out.res.diags[i].msg = "is not an entity"
                                  /\ out.res.diags[i].spans[1] = target.span}
                IN  IF last.value.kind = "Entity"
                    THEN /\ told = {}
                         /\ out.res.ok => out.res.value.by_arch[a] = last.value.id
                    ELSE /\ Cardinality(told) = 1
                         /\ \A i \in told :
                               /\ out.res.diags[i].about = Ident(target.primary.v)
                               /\ out.res.diags[i].spans = <<target.span, last.span>>

\* An architecture names an identifier defined as an entity and then as a
\* package, and is told that it is not an entity.
C13_Witness ==
    /\ Indexed
    /\ \E a \in Elems(IndexedLib.archs) :
          /\ SimpleTarget(a)
          /\ Len(TargetDefs(a)) = 2
          /\ TargetDefs(a)[1].value.kind = "Entity"
          /\ TargetDefs(a)[2].value.kind = "Pkg"
          /\ \E i \in 1..Len(out.res.diags) :
                /\ out.res.diags[i].msg = "is not an entity"
                /\ out.res.diags[i].spans = <<env.ast_table[a].target.span, TargetDefs(a)[2].span>>

(***************************************************************************)
(* The lowering of a library.                                              *)
(***************************************************************************)
LibFields ==
    <<"entities", "cfgs", "pkg_decls", "pkg_insts", "ctxs", "archs", "pkg_bodies">>

KindOfField ==
    <<"EntityDecl", "CfgDecl", "PkgDecl", "PkgInst", "CtxDecl", "ArchBody", "PkgBody">>

\* The handles listed in a Lib.
Listed(lib) == UNION {Elems(lib[LibFields[f]]) : f \in 1..7}

ListedCount(lib) ==
    Len(lib.entities) + Len(lib.cfgs) + Len(lib.pkg_decls) + Len(lib.pkg_insts)
        + Len(lib.ctxs) + Len(lib.archs) + Len(lib.pkg_bodies)

\* The context items of a payload handle, as its AST entry names them.
CtxItemsOf(entry) ==
    IF "scope" \in DOMAIN entry THEN entry.scope ELSE entry.ctx_items

\* What the Lib returned for library id lists, seen against the AST table.
Lowered(id, lib, units, ast) ==
    /\ Listed(lib) \subseteq DOMAIN ast
    /\ ListedCount(lib) = Len(units)
    /\ Cardinality(Listed(lib)) = Len(units)
    /\ \A f \in 1..7 :
          LET listed == lib[LibFields[f]]
              ofkind == SelectSeq(units, LAMBDA du : du.data.kind = KindOfField[f])
          IN  /\ Len(listed) = Len(ofkind)
              /\ \A j \in 1..Len(listed) :
                    /\ ast[listed[j]].decl = ofkind[j].data.decl
                    /\ CtxItemsOf(ast[listed[j]]) \in DOMAIN ast
                    /\ ast[CtxItemsOf(ast[listed[j]])].ctx = ofkind[j].ctx
    /\ \A i \in 1..Len(units) :
          /\ Cardinality({h \in DOMAIN ast :
                             h.kind # "CtxItems" /\ ast[h].decl = units[i].data.decl}) = 1
          /\ Cardinality({h \in DOMAIN ast :
                             h.kind = "CtxItems" /\ ast[h].ctx = units[i].ctx}) = 1

\* C14: lowering a library allocates for each design unit one fresh payload
\* handle and one fresh CtxItemsRef, deposits the AST of both, and appends
\* the payload handle to the Lib field of the unit's kind in source order;
\* every handle of the returned Lib has an AST entry, the seven lists hold as
\* many handles as the library has design units, and no handle occurs twice.
C14_LibLowering ==
    [][out'.op = "hir" =>
          /\ Lowered(out'.id, out'.res.value, env'.libs[out'.id], env'.ast_table)
          /\ ~out'.hit =>
                /\ DOMAIN env'.ast_table \ DOMAIN env.ast_table
                      = Listed(out'.res.value)
                          \cup {CtxItemsOf(env'.ast_table[h]) : h \in Listed(out'.res.value)}
                /\ \A h \in DOMAIN env.ast_table : env'.ast_table[h] = env.ast_table[h]
                /\ Cardinality(DOMAIN env'.ast_table \ DOMAIN env.ast_table)
                      = 2 * Len(env.libs[out'.id])]_vars

\* A library with two design units of one kind was lowered after another
\* library.
C14_Witness ==
    /\ out.op = "hir"
    /\ ~out.hit
    /\ Len(out.res.value.archs) = 2
    /\ DOMAIN sb.hir_table = {1, 2}
    /\ Len(sb.hir_table[2].entities) = 1

(***************************************************************************)
(* The IR definition of an architecture.                                   *)
(***************************************************************************)
IsPrefix(s, t) == Len(s) <= Len(t) /\ SubSeq(t, 1, Len(s)) = s

\* The steps of a make for architecture id that succeeds, in their order.
StepsOf(id) ==
    LET arch == env.hir_table[id]
    IN  <<Ref("typeck", id), Ref("entity", id)>>
            \o [i \in 1..Len(arch.decls) |-> Ref("decls", arch.decls[i].id)]
            \o [i \in 1..Len(arch.stmts) |-> Ref("stmts", arch.stmts[i].id)]
            \o <<Ref("add", id), Ref("store", id)>>

\* The items codegen was called for without failing, in the order of the
\* calls.
Generated ==
    LET evs == SelectSeq(out.trace, LAMBDA ev : ev.kind \in {"decls", "stmts"})
        n   == IF out.pc = "done" /\ ~out.res.ok /\ evs # <<>>
                  /\ out.trace[Len(out.trace)].kind \in {"decls", "stmts"}
               THEN Len(evs) - 1 ELSE Len(evs)
    IN  [i \in 1..n |-> evs[i]]

\* C15: make for an architecture type-checks first, then calls the code
\* generator once per declaration and then once per concurrent statement, in
\* source order and on the one new IR entity; the entity is in the module
\* and its value reference in lldef_table only after every step succeeded,
\* and after a failure neither holds anything.
C15_LldefOrder ==
    (out.op = "lldef" /\ ~out.hit) =>
        /\ out.id \in DOMAIN env.hir_table => IsPrefix(out.trace, StepsOf(out.id))
        /\ out.trace # <<>> => out.trace[1] = Ref("typeck", out.id)
        /\ out.entity.code = Generated
        /\ Len(env.llmod) <= 1
        /\ env.llmod # <<>> =>
              /\ IsPrefix(SubSeq(StepsOf(out.id), 1, Len(StepsOf(out.id)) - 1), out.trace)
              /\ out.res.ok
              /\ env.llmod[1] = out.entity
              /\ env.llmod[1].code
                    = env.hir_table[out.id].decls \o env.hir_table[out.id].stmts
        /\ out.id \in DOMAIN sb.lldef_table =>
              /\ out.trace = StepsOf(out.id)
              /\ sb.lldef_table[out.id] = 1
              /\ env.llmod # <<>>
        /\ (out.pc = "done" /\ out.res.ok) => out.id \in DOMAIN sb.lldef_table
        /\ (out.pc = "done" /\ ~out.res.ok) =>
              env.llmod = <<>> /\ out.id \notin DOMAIN sb.lldef_table

\* An architecture with two declarations and two statements has its IR
\* definition in the module and in lldef_table.
C15_Witness ==
    /\ out.op = "lldef"
    /\ ~out.hit
    /\ out.pc = "done"
    /\ out.res.ok
    /\ Len(out.entity.code) = 4
    /\ out.id \in DOMAIN sb.lldef_table

(***************************************************************************)
(* The built-in types.                                                     *)
(***************************************************************************)
\* digits * 10^zeros with no trailing zero left in digits.
RECURSIVE Normal(_, _)
Normal(digits, zeros) ==
    IF digits # 0 /\ digits % 10 = 0 THEN Normal(digits \div 10, zeros + 1)
    ELSE Scaled(digits, zeros)

\* The product of a scale and a small factor.
ScaledTimes(s, k) == Normal(s.digits * k, s.zeros)

\* The scales of fs, ps, ns, us, ms, sec, min and hr.
TimeScales ==
    <<Normal(1, 0), Normal(1000, 0), Normal(1000000, 0), Normal(1000000000, 0),
      Normal(1000, 9), Normal(1000000, 9), Normal(60000000, 9),
      Normal(360, 16)>>

Registered == TypeId("TIME") \in DOMAIN env.ty_table

\* C16: the units of TIME obey the scale law: unit 0 (fs) is the primary unit
\* with scale 1 and no relative tuple, every unit i >= 1 refers to unit i-1
\* with abs(i) = abs(i-1) * rel(i).scale, the scales are 1, 10^3, 10^6, 10^9,
\* 10^12, 10^15, 6*10^16 and 36*10^17, and min is 60 times sec.
C16_TimeScaleLaw ==
    Registered =>
        LET time  == env.ty_table[TypeId("TIME")]
            units == time.units
        IN  /\ time.kind = "Physical"
            /\ time.primary = 0
            /\ Len(units) = 8
            /\ [i \in 1..8 |-> units[i].name]
                  = <<"fs", "ps", "ns", "us", "ms", "sec", "min", "hr">>
            /\ units[1].abs = Normal(1, 0)
            /\ units[1].rel = <<>>
            /\ \A i \in 2..8 :
                  /\ Len(units[i].rel) = 1
                  /\ units[i].rel[1].index = i - 2
                  /\ units[i].abs = ScaledTimes(units[i - 1].abs, units[i].rel[1].scale)
            /\ \A i \in 1..8 : units[i].abs = TimeScales[i]
            /\ units[7].rel = <<[scale |-> 60, index |-> 5]>>
            /\ units[6].name = "sec"

\* The session holds TIME with its eight units.
C16_Witness ==
    /\ Registered
    /\ Len(env.ty_table[TypeId("TIME")].units) = 8
    /\ env.ty_table[TypeId("TIME")].units[8].rel # <<>>

C18_OperatorRoundTrip ==
    /\ Cardinality(Operators) = 34
    /\ out.op = "display" =>
          /\ out.operator \in Operators
          /\ out.res.ok
          /\ out.res.value.value = Operator(out.operator)
          /\ \A other \in Operators : other # out.operator => fmt(other) # out.shown

\* The matching inequality was displayed as "?/=" and found again.
C18_Witness ==
    /\ out.op = "display"
    /\ out.operator = "Match(Neq)"
    /\ out.shown = "?/="
    /\ out.res.ok

(***************************************************************************)
(* The borrows of the memo tables.                                         *)
(***************************************************************************)
Unborrowed(c) == env.cells[c].shared = 0 /\ ~env.cells[c].mut

\* C19: no accessor holds a borrow of a table while make runs: wherever an
\* accessor is entered, looks up or make is in progress, no borrow of a memo
\* table is outstanding, and no borrow or borrow_mut in any nesting of
\* accessors and makes meets a conflicting borrow.
C19_NoBorrowReentry ==
    /\ panicked \notin {"already borrowed", "already mutably borrowed"}
    /\ (stack # <<>> /\ Top.pc \in {"lookup", "make"}) =>
          \A c \in MemoCells : Unborrowed(c)
    /\ \A i \in 1..(Len(stack) - 1) : stack[i].pc = "make"

\* A nested accessor is entered from a make while a node is stored already.
C19_Witness ==
    /\ Len(stack) >= 3
    /\ Top.pc = "make"
    /\ arena >= 1
    /\ \A c \in MemoCells : Unborrowed(c)

(***************************************************************************)
(* The order of the candidates.                                            *)
(***************************************************************************)
\* The first scope from s upwards that has an entry for the name.
RECURSIVE FirstContributing(_, _, _)
FirstContributing(e, name, s) ==
    IF Contributes(e, name, s, FALSE) THEN s
    ELSE FirstContributing(e, name, e.scope_table[s].parent)

\* The entries of the holders for the name, one after the other.
RECURSIVE HolderEntries(_, _, _)
HolderEntries(e, name, holders) ==
    IF holders = <<>> THEN <<>>
    ELSE DefsGet(e.def_table[Head(holders)], name.value)
            \o HolderEntries(e, name, Tail(holders))

\* C20: with only_defs = false the list resolve_name returns for a scope is
\* the entries for the name of the scope's holders, in the order the holders
\* are listed, followed by the scope's explicit_defs entry; every entry keeps
\* the order of its candidates.
C20_CandidateOrder ==
    (out.op = "resolve_name" /\ ~out.only_defs /\ out.res.ok) =>
        LET s  == FirstContributing(env, out.name, out.scope_id)
            sc == env.scope_table[s]
        IN  out.res.value
                = HolderEntries(env, out.name, sc.defs)
                      \o DefsGet(sc.explicit_defs, out.name.value)

\* Two holders and the explicit definitions contributed: the two literals
\* of scope 1 first, then the signal of scope 3, then the imported constant.
C20_Witness ==
    /\ out.op = "resolve_name" /\ ~out.only_defs /\ out.res.ok
    /\ out.scope_id = 3
    /\ env.scope_table[3].defs = <<1, 3>>
    /\ Len(out.res.value) = 4
    /\ out.res.value[1] = Decl("Enum", 11, 110)
    /\ out.res.value[2] = Decl("Enum", 12, 120)
    /\ out.res.value[3].value.kind = "Signal"
    /\ out.res.value[4].value.kind = "Const"

(***************************************************************************)
(* The explicit definitions and those of the holders.                      *)
(***************************************************************************)
\* The positions of a result whose definition is an entry of the list given.
PositionsAmong(found, entries) == {i \in 1..Len(found) : found[i] \in Elems(entries)}

\* C21 as stated: in the list resolve_name returns for a scope the
\* definitions coming from the scope's explicit_defs precede those coming
\* from the referenced Defs.
C21_ExplicitDefsFirst ==
    (out.op = "resolve_name" /\ ~out.only_defs /\ out.res.ok) =>
        LET sc == env.scope_table[FirstContributing(env, out.name, out.scope_id)]
        IN  \A i \in PositionsAmong(out.res.value,
                                    DefsGet(sc.explicit_defs, out.name.value)),
               j \in PositionsAmong(out.res.value,
                                    HolderEntries(env, out.name, sc.defs)) : i < j

\* C21, amended: resolve_name consults each referenced Defs in order and
\* then the scope's explicit_defs, so that in the returned list every
\* definition comes from one of the two and those coming from the referenced
\* Defs precede those coming from explicit_defs.
C21_ExplicitDefsLast ==
    (out.op = "resolve_name" /\ ~out.only_defs /\ out.res.ok) =>
        LET sc == env.scope_table[FirstContributing(env, out.name, out.scope_id)]
            x  == PositionsAmong(out.res.value,
                                 DefsGet(sc.explicit_defs, out.name.value))
            h  == PositionsAmong(out.res.value,
                                 HolderEntries(env, out.name, sc.defs))
        IN  /\ x \cup h = 1..Len(out.res.value)
            /\ \A i \in h, j \in x : i < j

\* Scope 2 has the signal a of its own among its holders and an explicit
\* definition of a: the signal is returned first, the explicit one last.
C21_Witness ==
    /\ out.op = "resolve_name" /\ ~out.only_defs /\ out.res.ok
    /\ out.scope_id = 2
    /\ Ident("a") \in DOMAIN env.scope_table[2].explicit_defs
    /\ out.res.value[1].value.kind = "Signal"
    /\ out.res.value[Len(out.res.value)] = env.scope_table[2].explicit_defs[Ident("a")][1]

(***************************************************************************)
(* The escalation to the parent.                                           *)
(***************************************************************************)
\* The scopes resolve_name may visit from a scope, nearest first.
RECURSIVE Ancestors(_, _, _)
Ancestors(e, scope_id, only_defs) ==
    IF only_defs \/ scope_id \notin DOMAIN e.scope_table THEN <<scope_id>>
    ELSE IF e.scope_table[scope_id].parent = None THEN <<scope_id>>
    ELSE <<scope_id>> \o Ancestors(e, e.scope_table[scope_id].parent, only_defs)

\* The definitions a scope has for a name: its own with only_defs, else
\* those of its holders and its explicit ones.
EntriesOf(e, name, s, only_defs) ==
    IF only_defs THEN Elems(DefsGet(e.def_table[s], name.value))
    ELSE Elems(HolderEntries(e, name, e.scope_table[s].defs))
            \cup Elems(DefsGet(e.scope_table[s].explicit_defs, name.value))

\* C22: a successful result of resolve_name holds the definitions of exactly
\* one scope, the nearest on the chain of parents that has a match: no scope
\* before it has one and nothing of a scope after it is added.  With
\* only_defs = true that scope is the scope of the call, whose lack of an
\* entry makes the name unknown whatever its parents declare.
C22_NearestScopeOnly ==
    out.op = "resolve_name" =>
        LET chain == Ancestors(env, out.scope_id, out.only_defs)
        IN  /\ out.res.ok =>
                  \E k \in 1..Len(chain) :
                      /\ Contributes(env, out.name, chain[k], out.only_defs)
                      /\ \A j \in 1..(k - 1) :
                            ~Contributes(env, out.name, chain[j], out.only_defs)
                      /\ Elems(out.res.value)
                            = EntriesOf(env, out.name, chain[k], out.only_defs)
                      /\ out.only_defs => chain[k] = out.scope_id
            /\ (/\ out.only_defs
                /\ out.scope_id \in DOMAIN env.def_table
                /\ out.name.value \notin DOMAIN env.def_table[out.scope_id])
                  => UnknownName(out)

\* Scope 3 has nothing for a, its parent 2 and the root 1 both have: the
\* result is the signal of scope 2 alone.
C22_Witness ==
    /\ out.op = "resolve_name" /\ ~out.only_defs /\ out.res.ok
    /\ out.scope_id = 3 /\ out.name.value = Ident("a")
    /\ Ancestors(env, 3, FALSE) = <<3, 2, 1>>
    /\ ~Contributes(env, out.name, 3, FALSE)
    /\ Contributes(env, out.name, 1, FALSE)
    /\ env.scope_table[2].defs = <<2>>
    /\ Len(out.res.value) = 1
    /\ out.res.value[1] = Decl("Signal", 12, 120)

(***************************************************************************)
(* The resolution of a selector.                                           *)
(***************************************************************************)
\* The name a selector stands for.
SelectorName(pn) == Spanned(Ident(pn.v), pn.span)

\* C23: whatever only_defs the caller passed, a selector applied to a single
\* library or package is resolved among the definitions of that library or
\* package alone: with an entry there the result is that entry, without one
\* the name is unknown, also when the scope's holders or parents declare it.
C23_SelectorsOnlyDefs ==
    out.op = "resolve_compound_name" =>
        \A i \in 1..Len(out.name.parts) :
            SelectorsUpTo(out.name, i) =>
                LET pre  == Before(out, i)
                    here == Before(out, i + 1)
                    pn   == out.name.parts[i].pn
                IN  (/\ pre.ok /\ Len(pre.value.defs) = 1
                     /\ pre.value.defs[1].value.kind \in {"Lib", "Pkg", "PkgInst", "BuiltinPkg"}
                     /\ pre.value.defs[1].value.id \in DOMAIN env.def_table) =>
                        LET own == env.def_table[pre.value.defs[1].value.id]
                        IN  IF Ident(pn.v) \in DOMAIN own
                            THEN /\ here.ok
                                 /\ here.value.defs = own[Ident(pn.v)]
                                 /\ here.value.name = Ident(pn.v)
                            ELSE /\ ~here.ok
                                 /\ here.diags = <<DiagNotKnown(SelectorName(pn))>>
                                 /\ i = Len(out.name.parts) => out.res = here

\* The caller passed only_defs = false and selected b of the package a; b
\* is declared in the root, which is parent and holder of the package's
\* scope, but not in the package: the name is unknown.
C23_Witness ==
    /\ out.op = "resolve_compound_name" /\ ~out.only_defs
    /\ out.scope_id = 1
    /\ Len(out.name.parts) = 1 /\ SelectorsUpTo(out.name, 1)
    /\ out.name.primary.v = "a" /\ out.name.parts[1].pn.v = "b"
    /\ Before(out, 1).ok
    /\ Before(out, 1).value.defs = <<Decl("Pkg", 2, 120)>>
    /\ 2 \in DOMAIN env.def_table
    /\ Ident("b") \notin DOMAIN env.def_table[2]
    /\ Ident("b") \in DOMAIN env.def_table[1]
    /\ env.scope_table[2].defs = <<2, 1>>
    /\ env.scope_table[2].parent = 1
    /\ ~out.res.ok
    /\ out.res.diags[1].msg = "is not known"

(***************************************************************************)
(* The parts a compound name hands back.                                   *)
(***************************************************************************)
\* The number of selectors a list of parts begins with.
RECURSIVE LeadingSelectors(_)
LeadingSelectors(parts) ==
    IF parts = <<>> \/ Head(parts).kind # "Select" THEN 0
    ELSE 1 + LeadingSelectors(Tail(parts))

\* The span from the primary name to the k-th part.
Covering(name, k) ==
    IF k = 0 THEN name.primary.span
    ELSE Span(name.primary.span.lo, name.parts[k].pn.span.hi)

\* C24: a successful resolve_compound_name has consumed the selectors the
\* parts begin with and no part after them.  It returns the name of the last
\* part consumed with the definitions of the name up to that part, the span
\* from the primary name to that part, and the other parts: none if every
\* part is a selector, else the parts from the first that is not one; the
\* parts consumed followed by the parts returned are the parts of the name.
C24_RemainingParts ==
    (out.op = "resolve_compound_name" /\ out.res.ok) =>
        LET parts == out.name.parts
            k     == LeadingSelectors(parts)
            r     == out.res.value
        IN  /\ r.parts = SubSeq(parts, k + 1, Len(parts))
            /\ k = Len(parts) => r.parts = <<>>
            /\ k < Len(parts) => r.parts[1] = parts[k + 1] /\ r.parts[1].kind # "Select"
            /\ SubSeq(parts, 1, k) \o r.parts = parts
            /\ r.span = Covering(out.name, k)
            /\ r.name = IF k = 0 THEN resolvable_from_primary_name(out.name.primary).value.value
                        ELSE Ident(parts[k].pn.v)
            /\ r.defs = Before(out, k + 1).value.defs

\* Of a.b(..) the selector b was consumed and the call handed back; the
\* span runs from a to b.
C24_Witness ==
    /\ out.op = "resolve_compound_name" /\ out.res.ok
    /\ Len(out.name.parts) = 2
    /\ out.name.parts[1].kind = "Select" /\ out.name.parts[2].kind = "Call"
    /\ out.res.value.parts = <<out.name.parts[2]>>
    /\ out.res.value.span = Span(1, 3)
    /\ out.res.value.name = Ident("b")

(***************************************************************************)
(* The ports of the IR entity.                                             *)
(***************************************************************************)
\* The ports of the entity of the architecture, as declared.
DeclaredPorts ==
    LET ports == env.hir_table[env.hir_table[out.id].entity].ports
    IN  [i \in 1..Len(ports) |-> env.hir_table[ports[i]]]

\* The IR arguments of the ports of the modes given, in their order.
ArgsOf(ports, modes) ==
    LET sel == SelectSeq(ports, LAMBDA p : p.mode \in modes)
    IN  [i \in 1..Len(sel) |-> [ty |-> [llhd |-> sel[i].ty], name |-> sel[i].name]]

\* C25: the IR entity of an architecture has as inputs the ports of mode In,
\* Inout or Linkage and as outputs those of mode Out, Inout or Buffer, each
\* in the order of declaration; an Inout port is in both lists, every port
\* in at least one, and the entity is named "<entity>_<arch>".
C25_PortPartition ==
    (out.op = "lldef" /\ out.entity # NoEntity) =>
        LET ports == DeclaredPorts
            arch  == env.hir_table[out.id]
            arg(p) == [ty |-> [llhd |-> p.ty], name |-> p.name]
        IN  /\ out.entity.ins = ArgsOf(ports, {"In", "Inout", "Linkage"})
            /\ out.entity.outs = ArgsOf(ports, {"Out", "Inout", "Buffer"})
            /\ \A i \in 1..Len(ports) :
                  /\ arg(ports[i]) \in Elems(out.entity.ins) \cup Elems(out.entity.outs)
                  /\ ports[i].mode = "Inout" =>
                        /\ arg(ports[i]) \in Elems(out.entity.ins)
                        /\ arg(ports[i]) \in Elems(out.entity.outs)
            /\ out.entity.name = <<env.hir_table[arch.entity].name, "_", arch.name>>
            /\ (out.pc \in {"store", "done"} /\ out.res.ok) =>
                  env.llmod[out.res.node].ins = out.entity.ins
                  /\ env.llmod[out.res.node].outs = out.entity.outs

\* An entity with an Inout port followed by a Buffer port is in the module:
\* one input, two outputs.
C25_Witness ==
    /\ out.op = "lldef" /\ out.pc = "done" /\ out.res.ok /\ ~out.hit
    /\ Len(DeclaredPorts) = 2
    /\ DeclaredPorts[1].mode = "Inout" /\ DeclaredPorts[2].mode = "Buffer"
    /\ Len(env.llmod[out.res.node].ins) = 1
    /\ Len(env.llmod[out.res.node].outs) = 2
    /\ env.llmod[out.res.node].name = <<"e", "_", "rtl">>

(***************************************************************************)
(* The output of the scoreboard.                                           *)
(***************************************************************************)
\* The lines an activation of lldef is to have written so far: none on a
\* hit; on a miss the first line before make runs and the second once make
\* has returned a value.
ExpectedLog ==
    IF out.hit THEN <<>>
    ELSE <<TraceMake("lldef", out.id)>>
            \o (IF out.pc \in {"store", "done"} /\ out.res.ok
                THEN <<TraceFill("lldef", out.id, out.res.node)>> ELSE <<>>)

\* C26: with trace_scoreboard set a memo miss writes "make <kind> for <key>"
\* before make runs and a memo fill "<kind> for <key> is <value>" after make
\* has succeeded and before the insertion, a failed make leaving the second
\* line out; nothing else is written, and nothing at all with the option
\* unset.
C26_TraceOutput ==
    out.op = "lldef" =>
        /\ out.log = IF env.trace_scoreboard THEN ExpectedLog ELSE <<>>
        /\ (out.pc = "store" /\ env.trace_scoreboard) =>
              out.id \notin DOMAIN sb.lldef_table

(***************************************************************************)
(* The default value of a type.                                            *)
(***************************************************************************)
\* The type at the end of a chain of names, as far as the types of the
\* names are obtained.
RECURSIVE AliasEnd(_, _)
AliasEnd(e, t) ==
    IF t.kind # "Named" THEN t
    ELSE IF t.id \in DOMAIN e.ty_table THEN AliasEnd(e, e.ty_table[t.id])
    ELSE [kind |-> "Unobtained"]

\* C27: default_value_for_type returns for a name the default of the type at
\* the end of its chain of names; for Null the constant Null; for an
\* enumeration the Null sentinel that stands for its first literal; for
\* Int(ty) the integer constant of type ty with the value of ty's left
\* bound; for UnboundedInt it panics and returns neither value nor error.
C27_DefaultValue ==
    out.op = "default_value_for_type" =>
        LET base == AliasEnd(env, out.ty)
        IN  /\ base.kind \in {"Null", "Enum"} =>
                  /\ out.res.ok /\ out.res.value = <<ConstNull>>
                  /\ panicked = "none"
            /\ base.kind = "Int" =>
                  /\ out.res.ok /\ Len(out.res.value) = 1
                  /\ out.res.value[1].kind = "Int"
                  /\ out.res.value[1].ty = base
                  /\ out.res.value[1].value = base.left
                  /\ panicked = "none"
            /\ base.kind = "UnboundedInt" =>
                  /\ ~out.res.ok /\ out.res.value = <<>> /\ out.res.diags = <<>>
                  /\ panicked = "unbounded integer has no default value"
            /\ (out.ty.kind = "Named" /\ out.ty.id \in DOMAIN env.ty_table) =>
                  out.res = default_value_for_type(env, env.ty_table[out.ty.id])

\* The type asked for names a type that names an integer type 7 downto 2:
\* the default is the 7 of that type.
C27_Witness ==
    /\ out.op = "default_value_for_type"
    /\ out.ty.kind = "Named" /\ out.ty.id \in DOMAIN env.ty_table
    /\ env.ty_table[out.ty.id].kind = "Named"
    /\ AliasEnd(env, out.ty) = IntTy("downto", 7, 2)
    /\ out.res.ok
    /\ out.res.value[1].value = 7
    /\ arena = 1

(***************************************************************************)
(* The lookups of the indexer in its own table.                            *)
(***************************************************************************)
\* The definitions of a library name design units of the library: every
\* entity they name is listed in the library's HIR.
DefsOfLibrary ==
    \A n \in DOMAIN IndexedDefs :
        \A i \in 1..Len(IndexedDefs[n]) :
            IndexedDefs[n][i].value.kind = "Entity"
                => IndexedDefs[n][i].value.id \in Elems(IndexedLib.entities)

C29_ByNameMatchesOrdered ==
    (out.op = "archs" /\ out.res.ok) =>
        \A e \in DOMAIN out.res.value.by_entity :
            LET t == out.res.value.by_entity[e]
            IN  /\ \A n \in DOMAIN t.by_name : t.by_name[n] \in Elems(t.ordered)
                /\ \A a \in Elems(t.ordered) :
                      LET n == env.ast_table[a].name.value
                      IN  n \in DOMAIN t.by_name /\ t.by_name[n] = a

(***************************************************************************)
(* The type marks inside the built-in types.                               *)
(***************************************************************************)
\* The names of types an array type refers to: its index types and its
\* element type.
TypeMarks(t) == {t.indices[i].ty : i \in 1..Len(t.indices)} \cup {t.element}

\* The handles the package STANDARD defines under a name.
StandardHandles(name) ==
    LET found == DefsGet(env.def_table[STANDARD_PKG_REF], Ident(name))
    IN  {found[i].value.id : i \in {j \in 1..Len(found) : found[j].value.kind = "Type"}}

\* C30: after register_builtins every handle used as a type mark inside a
\* built-in type has an entry in the type table and is the handle the
\* package STANDARD defines under the name of the mark; the element type of
\* TIME_VECTOR is the handle defined as TIME.
C30_TypeMarksRegistered ==
    Registered =>
        \A id \in DOMAIN env.ty_table :
            env.ty_table[id].kind = "Array" =>
                \A m \in TypeMarks(env.ty_table[id]) :
                    /\ m.id \in DOMAIN env.ty_table
                    /\ m.id \in StandardHandles(m.name)
====
